---- MODULE Spec2Model ----
(***************************************************************************)
(* Model of the effect scheduler of pulse-dj (pulse/core/lights/effects.py *)
(* and controller.py): EffectManager, the Effect base class with its       *)
(* asyncio loop task, the five constructible effect loops and the          *)
(* controller's light lock.                                                *)
(*                                                                         *)
(* asyncio runs one coroutine at a time and switches only at an await that *)
(* really suspends, so every action below is the code between two          *)
(* suspension points.  An await of an already finished task, and the       *)
(* acquire of a free lock, do not suspend.                                 *)
(*                                                                         *)
(* The OS2L side is modelled next to it: parse_message and the message     *)
(* classes of pulse/core/os2l/protocol.py, the connection framing, the     *)
(* message handler and the feedback path of pulse/core/os2l/server.py, and *)
(* the beat callback of test_virtualdj_sync.py; so are the connection set  *)
(* of the server and the band normalization of AudioAnalyzer               *)
(* (pulse/core/audio/analyzer.py).                                         *)
(***************************************************************************)
EXTENDS Integers, Sequences, FiniteSets, TLC

VARIABLES
    lights,       \* len(controller.lights)
    lockHolder,   \* controller._light_lock: task inside `async with`, 0 = unlocked
    lockWaiters,  \* controller._light_lock._waiters, in arrival order
    objs,         \* every Effect object constructed so far
    effects,      \* EffectManager._effects: object ids in insertion order
    active,       \* EffectManager._active_effect: object id, 0 = None
    tasks,        \* every asyncio task created by Effect.start
    calls,        \* the start_effect / stop_effect / cleanup coroutines in progress
    ncalls,       \* number of manager calls begun so far
    ret,          \* the manager call that returned last
    sent,         \* the colors light.set_color has been called with
    ext,          \* the controller.set_color / set_power call made outside a loop
    cret,         \* what the last such call returned
    beats,        \* the beats _on_beat has been called with, in order
    text,         \* the text handed to parse_message
    result,       \* what parse_message did with it
    msg,          \* the message object to_json is called on
    wire,         \* the bytes of the connection that have not arrived yet
    fed,          \* the bytes data_received has been called with so far
    buffer,       \* OS2LProtocol.buffer
    extracted,    \* the message texts handle_message tasks were created for, in order
    outcomes,     \* what the handle_message tasks that have run did, in order
    written,      \* what transport.write has been called with, in order
    fret,         \* the last send_feedback call and its outcome
    connections,  \* OS2LServer.connections: the protocol objects in the set
    transports,   \* per protocol object: "none", "open", "closing" or "lost"
    listening,    \* the listening socket of OS2LServer.server is open
    lost,         \* the last connection_lost call and its outcome
    peak_energy,  \* AudioAnalyzer.peak_energy
    analysis,     \* what analyze_frame returned last
    heard         \* the frames analyze_frame has been called with, in order

vars == <<lights, lockHolder, lockWaiters, objs, effects, active, tasks, calls, ncalls, ret,
          sent, ext, cret, beats, text, result, msg, wire, fed, buffer, extracted, outcomes,
          written, fret, connections, transports, listening, lost, peak_energy, analysis,
          heard>>

\* the state of the effect manager, its loops and the controller
lighting == <<lights, lockHolder, lockWaiters, objs, effects, active, tasks, calls, ncalls,
              ret, sent, ext, cret, beats>>

\* the receive and feedback paths of the connection
framing == <<wire, fed, buffer, extracted, outcomes, written, fret>>

\* the connection set of the server
network == <<connections, transports, listening, lost>>

\* the state of the audio analyzer
audio == <<peak_energy, analysis, heard>>

\* the state of the OS2L server and its connection, and of the analyzer
server == <<framing, network, audio>>

\* the state of the OS2L protocol side
proto == <<text, result, msg, server>>

\* the state outside the effect manager and its loops
outside == <<sent, ext, cret, beats, proto>>

----------------------------------------------------------------------------
(* Bounds of the model *)

MaxLights == 1
MaxSeqCalls == 2
MaxCalls == 4
MaxFairCalls == 3
MaxConc == 2
MaxTicks == 2
MaxEmits == 2
MaxDevCalls == 2
MaxLockCalls == 4
MaxBytes == 4
MaxFeedback == 1
MaxBeats == 2
MaxPeers == 4
MaxFrames == 4

----------------------------------------------------------------------------
(* Types and inputs *)

EffectType == {"PULSE", "STROBE", "RAINBOW", "CHASE", "MUSIC", "STATIC"}

NoColor == [hue |-> -1, saturation |-> -1, brightness |-> -1, kelvin |-> -1]

LightColor(h, s, b, k) == [hue |-> h, saturation |-> s, brightness |-> b, kelvin |-> k]

\* a validate that lets every color through
ColorValid_Any(c) == TRUE

\* LightColor.validate: TRUE when no ValueError is raised
ColorValid(c) ==
    /\ 0 <= c.hue /\ c.hue <= 65535
    /\ 0 <= c.saturation /\ c.saturation <= 65535
    /\ 0 <= c.brightness /\ c.brightness <= 65535
    /\ 1500 <= c.kelvin /\ c.kelvin <= 9000

\* EffectParams: speed as a number, intensity in hundredths (1.0 = 100)
EffectParams(s, i, c) == [speed |-> s, intensity |-> i, color |-> c]

DefaultParams == EffectParams(1, 100, NoColor)

\* the `params=None` argument
NoParams == EffectParams(-1, -1, NoColor)

\* EffectParams.validate: TRUE when no ValueError is raised
ParamsValid(p) ==
    /\ 0 <= p.speed /\ p.speed <= 10
    /\ 0 <= p.intensity /\ p.intensity <= 100
    /\ (p.color # NoColor => ColorValid(p.color))

Warm == LightColor(0, 0, 65535, 3500)

\* the params values start_effect is called with
ParamChoices ==
    { NoParams,
      EffectParams(1, 80, Warm),
      EffectParams(20, 150, NoColor) }

\* the effect types and params of the overlapping calls
OverlapTypes == {"PULSE", "STROBE"}

OverlapParams == {NoParams}

\* the bpm values update_timing is called with
BpmChoices == {128}

\* feature snapshots: sets of <<key, value in hundredths>>
EmptyFeatures == {}

\* one value per band of AudioAnalyzer.FREQ_BANDS
BandSnapshot ==
    { <<"sub_bass", 50>>, <<"bass", 50>>, <<"low_mid", 50>>,
      <<"mid", 50>>, <<"high_mid", 50>>, <<"high", 50>> }

FeatureChoices == {BandSnapshot}

\* a snapshot with a band energy above 1
LoudSnapshot == {<<"bass", 400>>}

\* the params and snapshots of the runs that look at the device commands:
\* speed 0 is within the declared range, intensity 2.5 is not
DeviceParams ==
    { EffectParams(0, 100, NoColor),
      EffectParams(1, 250, NoColor) }

DeviceFeatures == {LoudSnapshot}

\* dict.get(key, default)
Get(f, k, d) == IF \E p \in f : p[1] = k THEN (CHOOSE p \in f : p[1] = k)[2] ELSE d

----------------------------------------------------------------------------
(* Effect objects and loop tasks *)

\* Effect.__init__ and the subclass constructors; beat in microseconds
NewEffect(etype, params) ==
    [type |-> etype,
     running |-> FALSE,
     task |-> 0,
     params |-> IF params = NoParams THEN DefaultParams ELSE params,
     beat |-> IF etype = "PULSE" THEN 500000 ELSE 0,
     features |-> EmptyFeatures]

\* asyncio.create_task(self._run()): the coroutine has not run yet; out holds
\* the colors the step in progress has called light.set_color with
NewTask(o) ==
    [obj |-> o, pc |-> "new", cancel |-> FALSE, ph |-> 0, li |-> 0,
     hue |-> 0, pos |-> 0, emits |-> 0, out |-> {}]

Alive(t) == tasks[t].pc # "done"

AliveTasks == {t \in DOMAIN tasks : Alive(t)}

TasksOf(o) == {t \in DOMAIN tasks : tasks[t].obj = o}

\* Task.cancel(): a finished task is left alone, any other gets CancelledError
\* thrown in at the await where it is suspended
Cancel(tks, t) ==
    IF tks[t].pc = "done" THEN tks ELSE [tks EXCEPT ![t].cancel = TRUE]

----------------------------------------------------------------------------
(* Colors computed by the loops; int() of a non-negative float is \div *)

PulseColor(o, ph) ==
    IF ph = 1
    THEN LightColor(0, 0, (16384 * 100 + (65535 - 16384) * objs[o].params.intensity) \div 100, 3500)
    ELSE LightColor(0, 0, 32767, 3500)

StrobeColor(ph) ==
    IF ph = 1 THEN LightColor(0, 0, 65535, 3500) ELSE LightColor(0, 0, 0, 3500)

RainbowColor(o, hue) ==
    LightColor(hue, 65535, (32767 * objs[o].params.intensity) \div 100, 3500)

MusicColor(o) ==
    LightColor((Get(objs[o].features, "bass", 0) * 21845) \div 100,
               (Get(objs[o].features, "mids", 0) * 65535) \div 100,
               (Get(objs[o].features, "highs", 0) * 65535 * objs[o].params.intensity) \div 10000,
               3500)

Abs(x) == IF x < 0 THEN -x ELSE x

\* light i (1-based here, enumerate index i-1) of n lights, chase position pos
ChaseColor(o, i, pos, n) ==
    LightColor(0, 0,
               (65535 * (n - Abs((i - 1) - pos)) * objs[o].params.intensity) \div (n * 100),
               3500)

BatchColor(tk, ph) ==
    CASE objs[tk.obj].type = "PULSE" -> PulseColor(tk.obj, ph)
      [] objs[tk.obj].type = "STROBE" -> StrobeColor(ph)
      [] objs[tk.obj].type = "RAINBOW" -> RainbowColor(tk.obj, tk.hue)
      [] OTHER -> MusicColor(tk.obj)

----------------------------------------------------------------------------
(* controller._light_lock, an asyncio.Lock *)

\* the waiter is a loop task that has been cancelled
Cancelled(t) == t \in DOMAIN tasks /\ tasks[t].cancel

LiveWaiters(w) == SelectSeq(w, LAMBDA x : ~Cancelled(x))

Without(w, t) == SelectSeq(w, LAMBDA x : x # t)

\* Lock.acquire without suspending: unlocked and no waiter still wants it
CanAcquire(h, w, t) == h = 0 /\ LiveWaiters(w) = <<>>

\* a lock that hands itself to the first waiter while it is held
Granted_Held(h, w, t) == LiveWaiters(w) # <<>> /\ Head(LiveWaiters(w)) = t

\* a suspended acquire goes on when the lock is released and it is first in line
Granted(h, w, t) == h = 0 /\ LiveWaiters(w) # <<>> /\ Head(LiveWaiters(w)) = t

\* a cancelled holder that keeps the lock
HolderAfterCancel_Kept(h, t) == h

\* the lock after task t, blocked in acquire or sleeping, has been unwound by
\* CancelledError: the `async with` it is inside of releases the lock on the way out
HolderAfterCancel(h, t) == IF h = t THEN 0 ELSE h

----------------------------------------------------------------------------
(* The effect loops (_run), from one suspension point to the next.         *)
(* Every operator returns the task record at its next suspension point (or *)
(* finished) together with the lock holder and the lock's waiters.         *)

Susp(tk, h, w) == [task |-> tk, holder |-> h, waiters |-> w]

\* the coroutine returns, or an exception is caught by `except Exception` and
\* logged; the locals of a finished coroutine are gone
Finish(tk, h, w) == Susp([NewTask(tk.obj) EXCEPT !.pc = "done", !.out = tk.out], h, w)

\* await asyncio.sleep(...)
Sleep(tk, ph, h, w) == Susp([tk EXCEPT !.pc = "sleep", !.ph = ph, !.li = 0], h, w)

\* after the `async with` batch of phase ph, the lock released
AfterBatch(tk, ph, h, w) ==
    CASE objs[tk.obj].type = "RAINBOW" ->
            \* hue = (hue + 1000) % 65535, then sleep(0.05 / speed)
            IF objs[tk.obj].params.speed = 0
            THEN Finish([tk EXCEPT !.hue = (tk.hue + 1000) % 65535], h, w)
            ELSE Sleep([tk EXCEPT !.hue = (tk.hue + 1000) % 65535], ph, h, w)
      [] OTHER -> Sleep(tk, ph, h, w)

\* inside `async with self.controller._light_lock` (h = t): for each light,
\* controller.set_color validates the color (invalid: returns False at once)
\* and then acquires the same lock again around light.set_color
InBatch(t, tk, ph, h, w) ==
    IF lights = 0 \/ ~ColorValid(BatchColor(tk, ph))
    THEN AfterBatch(tk, ph, 0, w)
    ELSE IF CanAcquire(h, w, t)
         THEN AfterBatch([tk EXCEPT !.emits = tk.emits + lights,
                                    !.out = tk.out \cup {BatchColor(tk, ph)}], ph, 0, w)
         ELSE Susp([tk EXCEPT !.pc = "color", !.ph = ph, !.li = 1], h, Append(w, t))

\* async with self.controller._light_lock
EnterBatch(t, tk, ph, h, w) ==
    IF CanAcquire(h, w, t)
    THEN InBatch(t, tk, ph, t, w)
    ELSE Susp([tk EXCEPT !.pc = "lock", !.ph = ph, !.li = 0], h, Append(w, t))

RECURSIVE ChaseFrom(_, _, _, _, _)

\* ChaseEffect: inside the lock taken for light i
ChaseIn(t, tk, i, h, w) ==
    IF ~ColorValid(ChaseColor(tk.obj, i, tk.pos, lights))
    THEN ChaseFrom(t, tk, i + 1, 0, w)
    ELSE IF CanAcquire(h, w, t)
         THEN ChaseFrom(t, [tk EXCEPT !.emits = tk.emits + 1,
                                      !.out = tk.out \cup {ChaseColor(tk.obj, i, tk.pos, lights)}],
                        i + 1, 0, w)
         ELSE Susp([tk EXCEPT !.pc = "color", !.ph = 1, !.li = i], h, Append(w, t))

\* ChaseEffect: the for loop from light i on, then the position update and the sleep
ChaseFrom(t, tk, i, h, w) ==
    IF i > lights
    THEN IF objs[tk.obj].params.speed = 0
         THEN Finish([tk EXCEPT !.pos = (tk.pos + 1) % lights], h, w)
         ELSE Sleep([tk EXCEPT !.pos = (tk.pos + 1) % lights], 1, h, w)
    ELSE IF CanAcquire(h, w, t)
         THEN ChaseIn(t, tk, i, t, w)
         ELSE Susp([tk EXCEPT !.pc = "lock", !.ph = 1, !.li = i], h, Append(w, t))

\* `while self._running:` and the iteration up to its first suspension
Top(t, tk, h, w) ==
    IF ~objs[tk.obj].running
    THEN Finish(tk, h, w)
    ELSE CASE objs[tk.obj].type = "STROBE" ->
                \* period = 0.1 / self.params.speed
                IF objs[tk.obj].params.speed = 0
                THEN Finish(tk, h, w)
                ELSE EnterBatch(t, tk, 1, h, w)
           [] objs[tk.obj].type = "MUSIC" ->
                IF objs[tk.obj].features = EmptyFeatures
                THEN Sleep(tk, 0, h, w)
                ELSE EnterBatch(t, tk, 1, h, w)
           [] objs[tk.obj].type = "CHASE" -> ChaseFrom(t, tk, 1, h, w)
           [] OTHER -> EnterBatch(t, tk, 1, h, w)

\* the first step of the task
FromNew(t, tk, h, w) ==
    IF objs[tk.obj].type = "CHASE" /\ lights = 0
    THEN Finish(tk, h, w)
    ELSE Top(t, tk, h, w)

\* the sleep is over
FromSleep(t, tk, h, w) ==
    IF objs[tk.obj].type \in {"PULSE", "STROBE"} /\ tk.ph = 1
    THEN EnterBatch(t, tk, 2, h, w)
    ELSE Top(t, tk, h, w)

\* the suspended acquire of the loop's own `async with` has got the lock
FromLock(t, tk, h, w) ==
    IF objs[tk.obj].type = "CHASE"
    THEN ChaseIn(t, tk, tk.li, t, Without(w, t))
    ELSE InBatch(t, tk, tk.ph, t, Without(w, t))

\* the suspended acquire inside controller.set_color has got the lock (it never
\* does: the waiter is the holder).  light.set_color is called, set_color's
\* `async with` unlocks the lock, and the loop's own `async with` then fails in
\* release() with RuntimeError, which `except Exception` logs.
FromColor(t, tk, h, w) ==
    Susp([tk EXCEPT !.pc = "done", !.emits = tk.emits + 1,
                    !.out = {IF objs[tk.obj].type = "CHASE"
                             THEN ChaseColor(tk.obj, tk.li, tk.pos, lights)
                             ELSE BatchColor(tk, tk.ph)}],
         0, Without(w, t))

\* CancelledError is thrown in at the await: set_color's `except Exception`
\* does not catch it, the loop's `except asyncio.CancelledError: raise` passes it on
Unwind(t, tk, h, w) ==
    Susp([NewTask(tk.obj) EXCEPT !.pc = "done", !.cancel = TRUE],
         HolderAfterCancel(h, t), Without(w, t))

StepEnabled(t) ==
    /\ tasks[t].pc # "done"
    /\ \/ tasks[t].cancel
       \/ tasks[t].pc \in {"new", "sleep"}
       \/ tasks[t].pc \in {"lock", "color"} /\ Granted(lockHolder, lockWaiters, t)

StepResult(t) ==
    IF tasks[t].cancel
    THEN Unwind(t, tasks[t], lockHolder, lockWaiters)
    ELSE CASE tasks[t].pc = "new" -> FromNew(t, tasks[t], lockHolder, lockWaiters)
           [] tasks[t].pc = "sleep" -> FromSleep(t, tasks[t], lockHolder, lockWaiters)
           [] tasks[t].pc = "lock" -> FromLock(t, tasks[t], lockHolder, lockWaiters)
           [] OTHER -> FromColor(t, tasks[t], lockHolder, lockWaiters)

\* one step of loop task t
TaskStep(t) ==
    /\ StepEnabled(t)
    /\ StepResult(t).task.hue <= MaxTicks * 1000
    /\ StepResult(t).task.emits <= MaxEmits
    /\ tasks' = [tasks EXCEPT ![t] = [StepResult(t).task EXCEPT !.out = {}]]
    /\ sent' = sent \cup StepResult(t).task.out
    /\ lockHolder' = StepResult(t).holder
    /\ lockWaiters' = StepResult(t).waiters
    /\ UNCHANGED <<lights, objs, effects, active, calls, ncalls, ret, ext, cret, beats, proto>>

----------------------------------------------------------------------------
(* Effect.start / Effect.stop *)

\* stop() that does not wait for the cancelled task
MustAwait_NoWait(tks, t) == FALSE

\* `await self._task` suspends the caller unless the task has already finished
MustAwait(tks, t) == tks[t].pc # "done"

\* Effect.stop up to its await: wait is the task awaited, 0 when stop has returned
StopSync(ob, tks, o) ==
    IF ob[o].task = 0
    THEN [objs |-> [ob EXCEPT ![o].running = FALSE], tasks |-> tks, wait |-> 0]
    ELSE IF MustAwait(Cancel(tks, ob[o].task), ob[o].task)
         THEN [objs |-> [ob EXCEPT ![o].running = FALSE],
               tasks |-> Cancel(tks, ob[o].task), wait |-> ob[o].task]
         ELSE [objs |-> [ob EXCEPT ![o].running = FALSE, ![o].task = 0],
               tasks |-> Cancel(tks, ob[o].task), wait |-> 0]

\* Effect.stop after its await: self._task = None
StopResume(ob, o) == [ob EXCEPT ![o].task = 0]

\* Effect.start
StartSync(ob, tks, o) ==
    IF ob[o].running
    THEN [objs |-> ob, tasks |-> tks]
    ELSE [objs |-> [ob EXCEPT ![o].running = TRUE, ![o].task = Len(tks) + 1],
          tasks |-> Append(tks, NewTask(o))]

----------------------------------------------------------------------------
(* EffectManager *)

NoCall ==
    [kind |-> "none", id |-> 0, etype |-> "NONE", params |-> NoParams,
     was |-> 0, obj |-> 0, task |-> 0, idx |-> 0, size |-> 0, alone |-> TRUE]

NoRet ==
    [kind |-> "none", id |-> 0, etype |-> "NONE", was |-> 0, alone |-> TRUE, failed |-> FALSE]

Returned(c, failed) ==
    [kind |-> c.kind, id |-> c.id, etype |-> c.etype,
     was |-> c.was, alone |-> c.alone, failed |-> failed]

Slots == 1 .. MaxConc

Quiescent == \A c \in Slots : calls[c] = NoCall

\* a new coroutine takes the first free slot
FreeSlot(c) == calls[c] = NoCall /\ \A d \in Slots : d < c => calls[d] # NoCall

\* the other calls in progress are overlapped by the call that begins
Overlapped == [d \in Slots |-> IF calls[d] = NoCall THEN NoCall ELSE [calls[d] EXCEPT !.alone = FALSE]]

BeginCall(kind, etype, params) ==
    [kind |-> kind, id |-> ncalls + 1, etype |-> etype, params |-> params,
     was |-> active, obj |-> 0, task |-> 0, idx |-> 0, size |-> 0, alone |-> Quiescent]

\* self._effects.get(effect_type): the cached object of the type, 0 when absent
Cached(etype) ==
    IF \E i \in DOMAIN effects : objs[effects[i]].type = etype
    THEN effects[CHOOSE i \in DOMAIN effects : objs[effects[i]].type = etype]
    ELSE 0

\* _create_effect returns an object for these types and None for any other
Constructible == {"PULSE", "STROBE", "RAINBOW", "CHASE", "MUSIC"}

\* start_effect from `# Create effect if needed` to its end
StartTail(ob, tks, etype, params) ==
    IF Cached(etype) = 0 /\ etype \notin Constructible
    THEN [objs |-> ob, tasks |-> tks, effects |-> effects, active |-> active]
    ELSE LET e == IF Cached(etype) = 0 THEN Len(ob) + 1 ELSE Cached(etype)
             ob1 == IF Cached(etype) = 0 THEN Append(ob, NewEffect(etype, params)) ELSE ob
             ob2 == IF params # NoParams THEN [ob1 EXCEPT ![e].params = params] ELSE ob1
             st == StartSync(ob2, tks, e)
         IN  [objs |-> st.objs, tasks |-> st.tasks,
              effects |-> IF Cached(etype) = 0 THEN Append(effects, e) ELSE effects,
              active |-> e]

\* a start_effect call begins and runs to its await or to its end
StartEffect(c, etype, params) ==
    /\ UNCHANGED outside
    /\ FreeSlot(c)
    /\ ncalls' = ncalls + 1
    /\ UNCHANGED <<lights, lockHolder, lockWaiters>>
    /\ LET call == BeginCall("start", etype, params)
           s == IF active # 0 THEN StopSync(objs, tasks, active)
                ELSE [objs |-> objs, tasks |-> tasks, wait |-> 0]
           r == StartTail(s.objs, s.tasks, etype, params)
       IN  IF s.wait # 0
           THEN /\ objs' = s.objs
                /\ tasks' = s.tasks
                /\ calls' = [Overlapped EXCEPT ![c] = [call EXCEPT !.obj = active, !.task = s.wait]]
                /\ UNCHANGED <<effects, active, ret>>
           ELSE /\ objs' = r.objs
                /\ tasks' = r.tasks
                /\ effects' = r.effects
                /\ active' = r.active
                /\ calls' = Overlapped
                /\ ret' = Returned(call, FALSE)

\* the awaited loop task has finished: start_effect goes on to its end
ResumeStart(c) ==
    /\ UNCHANGED outside
    /\ calls[c].kind = "start"
    /\ ~Alive(calls[c].task)
    /\ LET r == StartTail(StopResume(objs, calls[c].obj), tasks, calls[c].etype, calls[c].params)
       IN  /\ objs' = r.objs
           /\ tasks' = r.tasks
           /\ effects' = r.effects
           /\ active' = r.active
    /\ calls' = [calls EXCEPT ![c] = NoCall]
    /\ ret' = Returned(calls[c], FALSE)
    /\ UNCHANGED <<lights, lockHolder, lockWaiters, ncalls>>

\* a stop_effect call begins and runs to its await or to its end
StopEffect(c) ==
    /\ UNCHANGED outside
    /\ FreeSlot(c)
    /\ ncalls' = ncalls + 1
    /\ UNCHANGED <<lights, lockHolder, lockWaiters, effects>>
    /\ LET call == BeginCall("stop", "NONE", NoParams)
           s == IF active # 0 THEN StopSync(objs, tasks, active)
                ELSE [objs |-> objs, tasks |-> tasks, wait |-> 0]
       IN  /\ objs' = s.objs
           /\ tasks' = s.tasks
           /\ IF s.wait # 0
              THEN /\ calls' = [Overlapped EXCEPT ![c] = [call EXCEPT !.obj = active, !.task = s.wait]]
                   /\ UNCHANGED <<active, ret>>
              ELSE /\ active' = 0
                   /\ calls' = Overlapped
                   /\ ret' = Returned(call, FALSE)

\* the awaited loop task has finished: stop_effect goes on to its end
ResumeStop(c) ==
    /\ UNCHANGED outside
    /\ calls[c].kind = "stop"
    /\ ~Alive(calls[c].task)
    /\ objs' = StopResume(objs, calls[c].obj)
    /\ active' = 0
    /\ calls' = [calls EXCEPT ![c] = NoCall]
    /\ ret' = Returned(calls[c], FALSE)
    /\ UNCHANGED <<lights, lockHolder, lockWaiters, effects, tasks, ncalls>>

RECURSIVE CleanupFrom(_, _, _)

\* cleanup's `for effect in self._effects.values(): await effect.stop()` from
\* the i-th cached effect on: idx is the effect whose stop() suspended, 0 at the end
CleanupFrom(ob, tks, i) ==
    IF i > Len(effects)
    THEN [objs |-> ob, tasks |-> tks, idx |-> 0, wait |-> 0]
    ELSE LET s == StopSync(ob, tks, effects[i])
         IN  IF s.wait # 0
             THEN [objs |-> s.objs, tasks |-> s.tasks, idx |-> i, wait |-> s.wait]
             ELSE CleanupFrom(s.objs, s.tasks, i + 1)

\* a cleanup call begins and runs to its await or to its end
Cleanup(c) ==
    /\ UNCHANGED outside
    /\ FreeSlot(c)
    /\ ncalls' = ncalls + 1
    /\ UNCHANGED <<lights, lockHolder, lockWaiters>>
    /\ LET call == BeginCall("cleanup", "NONE", NoParams)
           r == CleanupFrom(objs, tasks, 1)
       IN  /\ objs' = r.objs
           /\ tasks' = r.tasks
           /\ IF r.wait # 0
              THEN /\ calls' = [Overlapped EXCEPT ![c] =
                                  [call EXCEPT !.obj = effects[r.idx], !.task = r.wait,
                                               !.idx = r.idx, !.size = Len(effects)]]
                   /\ UNCHANGED <<effects, active, ret>>
              ELSE /\ effects' = <<>>
                   /\ active' = 0
                   /\ calls' = Overlapped
                   /\ ret' = Returned(call, FALSE)

\* the awaited loop task has finished: the dict iterator is advanced (it raises
\* RuntimeError when the dict changed size meanwhile) and cleanup goes on
ResumeCleanup(c) ==
    /\ UNCHANGED outside
    /\ calls[c].kind = "cleanup"
    /\ ~Alive(calls[c].task)
    /\ UNCHANGED <<lights, lockHolder, lockWaiters, ncalls>>
    /\ IF Len(effects) # calls[c].size
       THEN /\ objs' = StopResume(objs, calls[c].obj)
            /\ calls' = [calls EXCEPT ![c] = NoCall]
            /\ ret' = Returned(calls[c], TRUE)
            /\ UNCHANGED <<tasks, effects, active>>
       ELSE LET r == CleanupFrom(StopResume(objs, calls[c].obj), tasks, calls[c].idx + 1)
            IN  /\ objs' = r.objs
                /\ tasks' = r.tasks
                /\ IF r.wait # 0
                   THEN /\ calls' = [calls EXCEPT ![c].obj = effects[r.idx], ![c].task = r.wait,
                                                  ![c].idx = r.idx]
                        /\ UNCHANGED <<effects, active, ret>>
                   ELSE /\ effects' = <<>>
                        /\ active' = 0
                        /\ calls' = [calls EXCEPT ![c] = NoCall]
                        /\ ret' = Returned(calls[c], FALSE)

\* update_timing that reaches the cached Pulse instance whatever is active
TimingTarget_Cached == Cached("PULSE")

\* the object EffectManager.update_timing forwards to, 0 when it forwards to none
TimingTarget == IF active # 0 /\ objs[active].type = "PULSE" THEN active ELSE 0

\* EffectManager.update_timing, PulseEffect.update_timing: 60.0 / bpm, in microseconds
UpdateTiming(bpm) ==
    /\ objs' = IF TimingTarget # 0
               THEN [objs EXCEPT ![TimingTarget].beat = 60000000 \div bpm]
               ELSE objs
    /\ UNCHANGED <<lights, lockHolder, lockWaiters, effects, active, tasks, calls, ncalls, ret>>
    /\ UNCHANGED outside

\* VirtualDJSync._on_beat(beat), bpm and strength in tenths: update_timing,
\* then a task is created for start_effect(PULSE, EffectParams(intensity =
\* strength / 100)); intensity is in hundredths
OnBeat(bpm, strength) ==
    /\ Len(beats) < MaxBeats
    /\ beats' = Append(beats, [bpm |-> bpm, params |-> EffectParams(1, strength \div 10, NoColor)])
    /\ objs' = IF TimingTarget # 0
               THEN [objs EXCEPT ![TimingTarget].beat = 600000000 \div bpm]
               ELSE objs
    /\ UNCHANGED <<lights, lockHolder, lockWaiters, effects, active, tasks, calls, ncalls, ret,
                   sent, ext, cret, proto>>

\* the event loop starts the start_effect tasks in the order of their creation
BeatTask(c) ==
    /\ ncalls < Len(beats)
    /\ StartEffect(c, "PULSE", beats[ncalls + 1].params)

\* update_features that reaches the cached Music instance whatever is active
FeaturesTarget_Cached == Cached("MUSIC")

\* the object EffectManager.update_features forwards to, 0 when it forwards to none
FeaturesTarget == IF active # 0 /\ objs[active].type = "MUSIC" THEN active ELSE 0

\* EffectManager.update_features, MusicEffect.update_features
UpdateFeatures(f) ==
    /\ objs' = IF FeaturesTarget # 0
               THEN [objs EXCEPT ![FeaturesTarget].features = f]
               ELSE objs
    /\ UNCHANGED <<lights, lockHolder, lockWaiters, effects, active, tasks, calls, ncalls, ret>>
    /\ UNCHANGED outside

----------------------------------------------------------------------------
(* LIFXController.set_color and set_power called outside an effect loop *)

\* the name that caller has in the lock; the loop tasks are 1, 2, ...
Caller == -1

NoExt == [kind |-> "none", color |-> NoColor]

TooBright == LightColor(0, 0, 70000, 3500)

\* the colors controller.set_color is called with
ColorChoices == {Warm, TooBright}

\* a set_color / set_power that lets the device's exception through
DeviceResult_Raised(raises) == IF raises THEN "raised" ELSE "ok"

\* what set_color / set_power return once inside `async with self._light_lock`:
\* True when the device call returns, False when it raises and `except
\* Exception` logs it
DeviceResult(raises) == IF raises THEN "fail" ELSE "ok"

\* controller.set_color(light, color) up to its return or to the suspension
\* in the lock's acquire
SetColor(color, raises) ==
    /\ ext = NoExt
    /\ lights > 0
    /\ UNCHANGED <<lights, lockHolder, objs, effects, active, tasks, calls, ncalls, ret, beats,
                   proto>>
    /\ IF ~ColorValid(color)
       THEN /\ cret' = "fail"
            /\ UNCHANGED <<lockWaiters, sent, ext>>
       ELSE IF CanAcquire(lockHolder, lockWaiters, Caller)
            THEN /\ sent' = sent \cup {color}
                 /\ cret' = DeviceResult(raises)
                 /\ UNCHANGED <<lockWaiters, ext>>
            ELSE /\ ext' = [kind |-> "color", color |-> color]
                 /\ lockWaiters' = Append(lockWaiters, Caller)
                 /\ UNCHANGED <<sent, cret>>

\* controller.set_power(light, power) up to its return or to the suspension
\* in the lock's acquire
SetPower(raises) ==
    /\ ext = NoExt
    /\ lights > 0
    /\ UNCHANGED <<lights, lockHolder, objs, effects, active, tasks, calls, ncalls, ret, sent,
                   beats, proto>>
    /\ IF CanAcquire(lockHolder, lockWaiters, Caller)
       THEN /\ cret' = DeviceResult(raises)
            /\ UNCHANGED <<lockWaiters, ext>>
       ELSE /\ ext' = [kind |-> "power", color |-> NoColor]
            /\ lockWaiters' = Append(lockWaiters, Caller)
            /\ UNCHANGED cret

\* the suspended acquire of that call has got the lock: the device call is
\* made and the lock released
ResumeExt(raises) ==
    /\ ext # NoExt
    /\ Granted(lockHolder, lockWaiters, Caller)
    /\ lockWaiters' = Without(lockWaiters, Caller)
    /\ sent' = IF ext.kind = "color" THEN sent \cup {ext.color} ELSE sent
    /\ cret' = DeviceResult(raises)
    /\ ext' = NoExt
    /\ UNCHANGED <<lights, lockHolder, objs, effects, active, tasks, calls, ncalls, ret, beats,
                   proto>>

----------------------------------------------------------------------------
(* pulse/core/os2l/protocol.py: parse_message.  Numbers are in tenths      *)
(* (bpm 120.0 is 1200) except the integers int() returns.                  *)

\* a value as json.loads returns it: t is its Python type
Json(t, n, s) == [t |-> t, n |-> n, s |-> s]

\* the key is not in the dict
Absent == Json("absent", 0, "")

Null == Json("null", 0, "")

\* an int or a float
Num(n) == Json("num", n, "")

\* a str holding the decimal text of a number: "120" for 1200, "1.5" for 15
NumStr(n) == Json("numstr", n, "")

\* any other str
Str(s) == Json("str", 0, s)

\* true or false
Bool(b) == Json("bool", IF b THEN 10 ELSE 0, "")

\* float('inf'), which json.loads returns for Infinity and for 1e999
Infinity == Json("inf", 0, "")

\* no text; form is "object" for a JSON object, "scalar" for a JSON number or
\* null, "garbage" for a text that is not JSON
NoText ==
    [form |-> "none", evt |-> Absent, pos |-> Absent, bpm |-> Absent, strength |-> Absent,
     change |-> Absent, name |-> Absent, state |-> Absent, page |-> Absent,
     id |-> Absent, param |-> Absent]

BeatText(pos, bpm, strength, change) ==
    [NoText EXCEPT !.form = "object", !.evt = Str("beat"), !.pos = pos, !.bpm = bpm,
                   !.strength = strength, !.change = change]

ButtonText(name, state, page) ==
    [NoText EXCEPT !.form = "object", !.evt = Str("btn"), !.name = name, !.state = state,
                   !.page = page]

CommandText(id, param) ==
    [NoText EXCEPT !.form = "object", !.evt = Str("cmd"), !.id = id, !.param = param]

\* the texts parse_message is called with
WireTexts ==
    LET pos == {Num(0), Num(70), Num(-10), Num(15), NumStr(40), Infinity, Null, Absent}
        bpm == {Num(299), Num(300), Num(1200), Num(3000), Num(3001), NumStr(1200),
                Infinity, Str("fast"), Absent}
        strength == {Absent, Num(-1), Num(0), Num(1000), Num(1001)}
        change == {Absent, Str("no")}
        id == {Num(0), Num(10), Num(40), Num(49), Num(50), NumStr(20), Absent}
        param == {Num(-1), Num(0), Num(500), Num(1000), Num(1001), Absent}
        name == {Str("play"), Str(""), Null, Absent}
        state == {Str("on"), Str("off"), Str("ON"), Null, Absent}
        page == {Absent, Str("main")}
        evt == {Absent, Str("feedback"), Num(10)}
    IN  {BeatText(p, b, s, c) : p \in pos, b \in bpm, s \in strength, c \in change}
        \cup {CommandText(i, q) : i \in id, q \in param}
        \cup {ButtonText(n, s, g) : n \in name, s \in state, g \in page}
        \cup {[NoText EXCEPT !.form = "object", !.evt = e] : e \in evt}
        \cup {[NoText EXCEPT !.form = f] : f \in {"scalar", "garbage"}}

\* send_feedback has not been called
NoFeedback == [out |-> "none", name |-> "", page |-> Absent, state |-> FALSE]

\* parse_message has not been called
NotParsed ==
    [out |-> "pending", exc |-> "", evt |-> "", pos |-> 0, bpm |-> 0, strength |-> 0,
     change |-> FALSE, name |-> "", state |-> "", page |-> Absent, id |-> 0, param |-> 0]

BeatMessage(pos, bpm, strength, change) ==
    [NotParsed EXCEPT !.out = "message", !.evt = "beat", !.pos = pos, !.bpm = bpm,
                      !.strength = strength, !.change = change]

ButtonMessage(name, state, page) ==
    [NotParsed EXCEPT !.out = "message", !.evt = "btn", !.name = name, !.state = state,
                      !.page = page]

CommandMessage(id, param) ==
    [NotParsed EXCEPT !.out = "message", !.evt = "cmd", !.id = id, !.param = param]

\* the exceptions the except clauses of parse_message name
Caught == {"JSONDecodeError", "KeyError", "TypeError", "ValueError", "ValidationError"}

\* an exception inside the try: None is returned when an except clause names
\* it, otherwise it leaves parse_message
Fail(exc) ==
    IF exc \in Caught
    THEN [NotParsed EXCEPT !.out = "none"]
    ELSE [NotParsed EXCEPT !.out = "raised", !.exc = exc]

\* what msg[key] followed by int(), float() or str() gives: an exception, or
\* the value v (s for str), fin FALSE for an infinite float
Conv(exc, v, s, fin) == [exc |-> exc, v |-> v, s |-> s, fin |-> fin]

\* int() of a float rounds toward zero
Trunc(n) == IF n >= 0 THEN n \div 10 ELSE -((-n) \div 10)

\* int(msg[key])
ToInt(j) ==
    CASE j.t = "absent" -> Conv("KeyError", 0, "", TRUE)
      [] j.t \in {"num", "bool"} -> Conv("", Trunc(j.n), "", TRUE)
      [] j.t = "numstr" -> IF j.n % 10 = 0
                           THEN Conv("", Trunc(j.n), "", TRUE)
                           ELSE Conv("ValueError", 0, "", TRUE)
      [] j.t = "str" -> Conv("ValueError", 0, "", TRUE)
      [] j.t = "inf" -> Conv("OverflowError", 0, "", TRUE)
      [] OTHER -> Conv("TypeError", 0, "", TRUE)

\* float(msg[key])
ToFloat(j) ==
    CASE j.t = "absent" -> Conv("KeyError", 0, "", TRUE)
      [] j.t \in {"num", "numstr", "bool"} -> Conv("", j.n, "", TRUE)
      [] j.t = "str" -> Conv("ValueError", 0, "", TRUE)
      [] j.t = "inf" -> Conv("", 0, "", FALSE)
      [] OTHER -> Conv("TypeError", 0, "", TRUE)

\* str(msg[key]); the text of a number is neither empty nor "on" nor "off"
ToStr(j) ==
    CASE j.t = "absent" -> Conv("KeyError", 0, "", TRUE)
      [] j.t = "str" -> Conv("", 0, j.s, TRUE)
      [] j.t = "null" -> Conv("", 0, "None", TRUE)
      [] OTHER -> Conv("", 0, "number", TRUE)

\* bool(msg.get('change', False))
Truthy(j) ==
    CASE j.t \in {"absent", "null"} -> FALSE
      [] j.t \in {"num", "bool"} -> j.n # 0
      [] j.t = "str" -> j.s # ""
      [] OTHER -> TRUE

BeatValid_Open(m) == 300 < m.bpm /\ m.bpm < 3000 /\ 0 <= m.strength /\ m.strength <= 1000

\* BeatMessage.validate
BeatValid(m) == 300 <= m.bpm /\ m.bpm <= 3000 /\ 0 <= m.strength /\ m.strength <= 1000

\* ButtonMessage.validate
ButtonValid(m) == m.name # "" /\ m.state \in {"on", "off"}

\* CommandMessage.validate
CommandValid(m) == 1 <= m.id /\ m.id <= 4 /\ 0 <= m.param /\ m.param <= 1000

\* a beat branch that requires the strength field
ParseBeat_Strict(t) ==
    IF t.strength = Absent THEN Fail("KeyError")
    ELSE LET m == BeatMessage(ToInt(t.pos).v, ToFloat(t.bpm).v, ToFloat(t.strength).v,
                              Truthy(t.change))
         IN  IF ToInt(t.pos).exc # "" THEN Fail(ToInt(t.pos).exc)
             ELSE IF ToFloat(t.bpm).exc # "" THEN Fail(ToFloat(t.bpm).exc)
             ELSE IF BeatValid(m) THEN m ELSE Fail("ValidationError")

\* the beat branch: the arguments are converted in order, then validate();
\* a comparison with an infinite float is false
ParseBeat(t) ==
    LET pos == ToInt(t.pos)
        bpm == ToFloat(t.bpm)
        strength == IF t.strength = Absent THEN Conv("", 1000, "", TRUE) ELSE ToFloat(t.strength)
        m == BeatMessage(pos.v, bpm.v, strength.v, Truthy(t.change))
    IN  CASE pos.exc # "" -> Fail(pos.exc)
          [] bpm.exc # "" -> Fail(bpm.exc)
          [] strength.exc # "" -> Fail(strength.exc)
          [] ~(bpm.fin /\ strength.fin /\ BeatValid(m)) -> Fail("ValidationError")
          [] OTHER -> m

\* the btn branch
ParseButton(t) ==
    LET name == ToStr(t.name)
        state == ToStr(t.state)
        m == ButtonMessage(name.s, state.s, t.page)
    IN  CASE name.exc # "" -> Fail(name.exc)
          [] state.exc # "" -> Fail(state.exc)
          [] ~ButtonValid(m) -> Fail("ValidationError")
          [] OTHER -> m

\* the cmd branch
ParseCommand(t) ==
    LET id == ToInt(t.id)
        param == ToFloat(t.param)
        m == CommandMessage(id.v, param.v)
    IN  CASE id.exc # "" -> Fail(id.exc)
          [] param.exc # "" -> Fail(param.exc)
          [] ~(param.fin /\ CommandValid(m)) -> Fail("ValidationError")
          [] OTHER -> m

\* parse_message(data)
ParseMessage(t) ==
    CASE t.form = "garbage" -> Fail("JSONDecodeError")
      [] t.form = "scalar" -> Fail("TypeError")
      [] t.evt = Absent -> Fail("ValueError")
      [] t.evt = Str("beat") -> ParseBeat(t)
      [] t.evt = Str("btn") -> ParseButton(t)
      [] t.evt = Str("cmd") -> ParseCommand(t)
      [] OTHER -> Fail("ValueError")

\* to_json of a message: json.dumps of to_dict, the page of a button only
\* when it is truthy
ToJson(m) ==
    CASE m.evt = "beat" -> BeatText(Num(m.pos * 10), Num(m.bpm), Num(m.strength), Bool(m.change))
      [] m.evt = "btn" -> ButtonText(Str(m.name), Str(m.state),
                                     IF Truthy(m.page) THEN m.page ELSE Absent)
      [] m.evt = "cmd" -> CommandText(Num(m.id * 10), Num(m.param))

\* the messages to_json is called on: every field within its declared range
RoundMessages ==
    {BeatMessage(p, b, s, c) : p \in {0, 7, 128}, b \in {300, 1205, 3000},
                               s \in {0, 805, 1000}, c \in BOOLEAN}
    \cup {ButtonMessage(n, s, g) : n \in {"play", "a"}, s \in {"on", "off"},
                                   g \in {Absent, Str("main"), Str("")}}
    \cup {CommandMessage(i, q) : i \in 1 .. 4, q \in {0, 505, 1000}}

\* msg.to_json()
ToJsonStep ==
    /\ text = NoText
    /\ text' = ToJson(msg)
    /\ UNCHANGED <<lighting, result, msg, server>>

\* one call of parse_message on the text
ParseStep ==
    /\ result = NotParsed
    /\ result' = ParseMessage(text)
    /\ UNCHANGED <<lighting, text, msg, server>>

----------------------------------------------------------------------------
(* pulse/core/os2l/server.py: OS2LProtocol.data_received, send_message and  *)
(* OS2LServer.handle_message, send_feedback.  A byte is "{", "}", "L" and  *)
(* "T" for the lead and the trail byte of a two-byte character, or any     *)
(* other letter for an ASCII character; the letters c, b, t, s, i, r, p    *)
(* and m stand for the body of a message (see TextOf).                     *)

\* data.decode('utf-8'): the characters of the chunk, "LT" read as the one
\* character "e'"; ok is FALSE where decode raises UnicodeDecodeError
RECURSIVE Utf8(_)
Utf8(bytes) ==
    IF bytes = <<>> THEN [ok |-> TRUE, s |-> <<>>]
    ELSE IF Head(bytes) = "T" THEN [ok |-> FALSE, s |-> <<>>]
    ELSE IF Head(bytes) = "L"
         THEN IF Len(bytes) >= 2 /\ bytes[2] = "T"
              THEN LET r == Utf8(SubSeq(bytes, 3, Len(bytes)))
                   IN  [ok |-> r.ok, s |-> <<"e'">> \o r.s]
              ELSE [ok |-> FALSE, s |-> <<>>]
    ELSE LET r == Utf8(Tail(bytes))
         IN  [ok |-> r.ok, s |-> <<Head(bytes)>> \o r.s]

\* a loop that cuts at the last `}` of the buffer instead of the first
Scan_Greedy(buf, msgs) ==
    LET opens == {i \in 1 .. Len(buf) : buf[i] = "{"}
        start == CHOOSE i \in opens : \A j \in opens : i <= j
        closes == {i \in start .. Len(buf) : buf[i] = "}"}
        end == CHOOSE i \in closes : \A j \in closes : i >= j
        later == {i \in opens : i > end}
        next == CHOOSE i \in later : \A j \in later : i <= j
    IN  IF opens = {} THEN [buffer |-> <<>>, msgs |-> msgs]
        ELSE IF closes = {} THEN [buffer |-> SubSeq(buf, start, Len(buf)), msgs |-> msgs]
        ELSE [buffer |-> IF later = {} THEN <<>> ELSE SubSeq(buf, next, Len(buf)),
              msgs |-> Append(msgs, SubSeq(buf, start, end))]

\* a loop that keeps a buffer without `{` instead of clearing it
RECURSIVE Scan_Keep(_, _)
Scan_Keep(buf, msgs) ==
    LET opens == {i \in 1 .. Len(buf) : buf[i] = "{"}
        start == CHOOSE i \in opens : \A j \in opens : i <= j
        closes == {i \in start .. Len(buf) : buf[i] = "}"}
        end == CHOOSE i \in closes : \A j \in closes : i <= j
    IN  IF opens = {} THEN [buffer |-> buf, msgs |-> msgs]
        ELSE IF closes = {} THEN [buffer |-> SubSeq(buf, start, Len(buf)), msgs |-> msgs]
        ELSE Scan_Keep(SubSeq(buf, end + 1, Len(buf)), Append(msgs, SubSeq(buf, start, end)))

\* the `while True` loop of data_received on the buffer buf: the buffer it
\* leaves and the messages it creates a task for, after msgs
RECURSIVE Scan(_, _)
Scan(buf, msgs) ==
    LET opens == {i \in 1 .. Len(buf) : buf[i] = "{"}
        start == CHOOSE i \in opens : \A j \in opens : i <= j
        closes == {i \in start .. Len(buf) : buf[i] = "}"}
        end == CHOOSE i \in closes : \A j \in closes : i <= j
    IN  IF opens = {} THEN [buffer |-> <<>>, msgs |-> msgs]
        ELSE IF closes = {} THEN [buffer |-> SubSeq(buf, start, Len(buf)), msgs |-> msgs]
        ELSE Scan(SubSeq(buf, end + 1, Len(buf)), Append(msgs, SubSeq(buf, start, end)))

\* data_received(data) with the next k bytes of the connection
DataReceived(k) ==
    /\ k \in 1 .. Len(wire)
    /\ wire' = SubSeq(wire, k + 1, Len(wire))
    /\ fed' = fed \o SubSeq(wire, 1, k)
    /\ LET data == Utf8(SubSeq(wire, 1, k))
           r == Scan(buffer \o data.s, <<>>)
       IN  IF data.ok
           THEN buffer' = r.buffer /\ extracted' = extracted \o r.msgs
           ELSE buffer' = <<>> /\ UNCHANGED extracted
    /\ UNCHANGED <<lighting, text, result, msg, outcomes, written, fret, network, audio>>

\* json.loads of an extracted message, for the messages of the model:
\*   {c} is {"evt":"cmd","id":1,"param":5}      {r} the same with "id":5
\*   {b} is {"evt":"btn","name":"a","state":"on"}
\*   {t} is {"evt":"beat","pos":1,"bpm":128,"strength":80}
\*   {s} is {"evt":"beat","pos":1,"bpm":128}
\*   {i} is {"evt":"beat","pos":Infinity,"bpm":120}
\*   {p} is {"evt":"beat","bpm":128}            {m} is {"evt":"beat","pos":1}
\* and any other text is not JSON
TextOf(m) ==
    CASE m = <<"{", "c", "}">> -> CommandText(Num(10), Num(50))
      [] m = <<"{", "r", "}">> -> CommandText(Num(50), Num(50))
      [] m = <<"{", "b", "}">> -> ButtonText(Str("a"), Str("on"), Absent)
      [] m = <<"{", "t", "}">> -> BeatText(Num(10), Num(1280), Num(800), Absent)
      [] m = <<"{", "s", "}">> -> BeatText(Num(10), Num(1280), Absent, Absent)
      [] m = <<"{", "i", "}">> -> BeatText(Infinity, Num(1200), Absent, Absent)
      [] m = <<"{", "p", "}">> -> BeatText(Absent, Num(1280), Absent, Absent)
      [] m = <<"{", "m", "}">> -> BeatText(Num(10), Absent, Absent, Absent)
      [] OTHER -> [NoText EXCEPT !.form = "garbage"]

HandleMessage_Propagates(m) ==
    LET p == ParseMessage(TextOf(m))
    IN  [kind |-> IF p.out = "raised" THEN "raised" ELSE "ignored", text |-> m, bpm |-> 0,
         position |-> 0, strength |-> 0, change |-> FALSE, name |-> "", page |-> Absent,
         state |-> FALSE, id |-> 0, param |-> 0]

\* handle_message(protocol, m): the callback invoked and the dict it is given,
\* or "ignored" when parse_message returns None and when it raises, which
\* `except Exception` catches.  param / 100.0 is kept in hundredths: 5.0
\* (50 tenths) is 0.05 (5 hundredths)
HandleMessage(m) ==
    LET p == ParseMessage(TextOf(m))
        none == [kind |-> "ignored", text |-> m, bpm |-> 0, position |-> 0, strength |-> 0,
                 change |-> FALSE, name |-> "", page |-> Absent, state |-> FALSE,
                 id |-> 0, param |-> 0]
    IN  CASE p.out # "message" -> none
          [] p.evt = "beat" -> [none EXCEPT !.kind = "beat", !.bpm = p.bpm, !.position = p.pos,
                                            !.strength = p.strength, !.change = p.change]
          [] p.evt = "btn" -> [none EXCEPT !.kind = "button", !.name = p.name, !.page = p.page,
                                           !.state = (p.state = "on")]
          [] p.evt = "cmd" -> [none EXCEPT !.kind = "command", !.id = p.id,
                                           !.param = p.param \div 10]

\* the event loop runs the handle_message task created first; the coroutine
\* has no await and runs to its end
HandleStep ==
    /\ Len(outcomes) < Len(extracted)
    /\ outcomes' = Append(outcomes, HandleMessage(extracted[Len(outcomes) + 1]))
    /\ UNCHANGED <<lighting, text, result, msg, wire, fed, buffer, extracted, written, fret,
                   network, audio>>

FeedbackJson_Paged(name, state, page) ==
    <<<<"evt", "feedback">>, <<"name", name>>, <<"state", IF state THEN "on" ELSE "off">>,
      <<"page", page.s>>>>

\* FeedbackMessage(name, state, page).to_json(): the keys and values of the
\* record in the order json.dumps writes them
FeedbackJson(name, state, page) ==
    <<<<"evt", "feedback">>, <<"name", name>>, <<"state", IF state THEN "on" ELSE "off">>>>
    \o (IF Truthy(page) THEN <<<<"page", page.s>>>> ELSE <<>>)

\* send_feedback(name, page, state) with the connection registered:
\* send_message writes the record and a newline; validate is not called and
\* `except Exception` lets nothing out
SendFeedback(name, page, state) ==
    /\ Len(written) < MaxFeedback
    /\ written' = Append(written, [record |-> FeedbackJson(name, state, page),
                                   tail |-> <<"\n">>])
    /\ fret' = [out |-> "returned", name |-> name, page |-> page, state |-> state]
    /\ UNCHANGED <<lighting, text, result, msg, wire, fed, buffer, extracted, outcomes,
                   network, audio>>

----------------------------------------------------------------------------
(* pulse/core/os2l/server.py: the connection set.  The event loop creates  *)
(* one OS2LProtocol per accepted connection and calls its connection_made; *)
(* it calls connection_lost once, after the peer has gone or after         *)
(* transport.close().                                                      *)

\* the protocol objects the event loop can create
Peers == 1 .. MaxPeers

NoLost == [peer |-> 0, out |-> "none"]

\* OS2LProtocol.connection_made of a new connection
ConnectionMade(p) ==
    /\ listening
    /\ transports[p] = "none"
    /\ transports' = [transports EXCEPT ![p] = "open"]
    /\ connections' = connections \cup {p}
    /\ UNCHANGED <<lighting, text, result, msg, framing, listening, lost, audio>>

\* OS2LProtocol.connection_lost: set.remove raises KeyError when the object
\* is not in the set
ConnectionLost(p) ==
    /\ transports[p] \in {"open", "closing"}
    /\ transports' = [transports EXCEPT ![p] = "lost"]
    /\ IF p \in connections
       THEN connections' = connections \ {p} /\ lost' = [peer |-> p, out |-> "returned"]
       ELSE UNCHANGED connections /\ lost' = [peer |-> p, out |-> "KeyError"]
    /\ UNCHANGED <<lighting, text, result, msg, framing, listening, audio>>

\* OS2LServer.stop from `# Close connections` on: transport.close() makes
\* the event loop call connection_lost later, the set is cleared at once,
\* and the listening socket is closed
Stop ==
    /\ listening
    /\ listening' = FALSE
    /\ transports' = [p \in Peers |->
                         IF p \in connections /\ transports[p] = "open"
                         THEN "closing" ELSE transports[p]]
    /\ connections' = {}
    /\ UNCHANGED <<lighting, text, result, msg, framing, lost, audio>>

----------------------------------------------------------------------------
(* pulse/core/audio/analyzer.py: AudioAnalyzer.  A frame is given by its   *)
(* mono samples and by the energy np.sum(magnitudes[start:end] ** 2) of    *)
(* each band of its spectrum, in units of the smallest step the peak can   *)
(* take; normalized energies are in hundredths.                            *)

\* the keys of FREQ_BANDS
Bands == {"sub_bass", "bass", "low_mid", "mid", "high_mid", "high"}

\* self.smoothing, in tenths
smoothing == 2

Frame(samples, energy) == [samples |-> samples, energy |-> energy]

\* all samples zero: the spectrum is zero too
Silence == Frame(<<0, 0>>, [b \in Bands |-> 0])

\* the frames of the model: silence, a kick, a hiss and a loud full frame
FrameChoices ==
    { Silence,
      Frame(<<30, -40>>, [b \in Bands |-> CASE b = "sub_bass" -> 40 [] b = "bass" -> 25
                                             [] OTHER -> 0]),
      Frame(<<3, -4>>, [b \in Bands |-> CASE b = "high" -> 10 [] b = "high_mid" -> 3
                                           [] b = "mid" -> 1 [] OTHER -> 0]),
      Frame(<<40, 40>>, [b \in Bands |-> 20]) }

NoAnalysis == [band_energies |-> [b \in Bands |-> 0], volume_level |-> 0]

\* peak * (1.0 - self.smoothing), rounded to the nearest step as the float
\* product is
Decay(p) == (p * (10 - smoothing) + 5) \div 10

\* a normalization that does not raise the peak to the energy
NormalizeEnergy_Raw(p, energy) ==
    [peak |-> Decay(p),
     out |-> IF Decay(p) > 0
             THEN (IF 2 * energy >= Decay(p) THEN 100 ELSE (200 * energy) \div Decay(p))
             ELSE 0]

\* a normalization that gives 1 when there is no peak
NormalizeEnergy_Full(p, energy) ==
    LET q == IF energy > Decay(p) THEN energy ELSE Decay(p)
    IN  [peak |-> q,
         out |-> IF q > 0
                 THEN (IF 2 * energy >= q THEN 100 ELSE (200 * energy) \div q)
                 ELSE 100]

\* _normalize_energy(band, energy) with p = self.peak_energy[band]: the new
\* peak and the value returned
NormalizeEnergy(p, energy) ==
    LET q == IF energy > Decay(p) THEN energy ELSE Decay(p)
    IN  [peak |-> q,
         out |-> IF q > 0
                 THEN (IF (200 * energy) \div q > 100 THEN 100 ELSE (200 * energy) \div q)
                 ELSE 0]

RECURSIVE SumSq(_)
SumSq(x) == IF x = <<>> THEN 0 ELSE Head(x) * Head(x) + SumSq(Tail(x))

\* float(np.sqrt(np.mean(audio_data ** 2))), to the integer below
VolumeLevel(samples) ==
    LET mean == SumSq(samples) \div Len(samples)
    IN  CHOOSE r \in 0 .. mean : r * r <= mean /\ (r + 1) * (r + 1) > mean

\* analyze_frame(audio_data)
AnalyzeFrame(f) ==
    /\ Len(heard) < MaxFrames
    /\ heard' = Append(heard, f)
    /\ peak_energy' = [b \in Bands |-> NormalizeEnergy(peak_energy[b], f.energy[b]).peak]
    /\ analysis' =
          [band_energies |-> [b \in Bands |-> NormalizeEnergy(peak_energy[b], f.energy[b]).out],
           volume_level |-> VolumeLevel(f.samples)]
    /\ UNCHANGED <<lighting, text, result, msg, framing, network>>

----------------------------------------------------------------------------
(* Specifications *)

\* the manager and the controller after construction and discovery
ManagerNew ==
    /\ lockHolder = 0
    /\ lockWaiters = <<>>
    /\ objs = <<>>
    /\ effects = <<>>
    /\ active = 0
    /\ tasks = <<>>
    /\ calls = [c \in Slots |-> NoCall]
    /\ ncalls = 0
    /\ ret = NoRet
    /\ sent = {}
    /\ ext = NoExt
    /\ cret = "none"
    /\ beats = <<>>

\* the analyzer after construction
AnalyzerNew ==
    /\ peak_energy = [b \in Bands |-> 0]
    /\ analysis = NoAnalysis
    /\ heard = <<>>

\* the server with one connection that has received nothing, and the
\* analyzer of the audio input
ServerNew ==
    /\ fed = <<>>
    /\ buffer = <<>>
    /\ extracted = <<>>
    /\ outcomes = <<>>
    /\ written = <<>>
    /\ fret = NoFeedback
    /\ connections = {1}
    /\ transports = [p \in Peers |-> IF p = 1 THEN "open" ELSE "none"]
    /\ listening = TRUE
    /\ lost = NoLost
    /\ AnalyzerNew

Init ==
    /\ lights \in 0 .. MaxLights
    /\ lockHolder = 0
    /\ lockWaiters = <<>>
    /\ objs = <<>>
    /\ effects = <<>>
    /\ active = 0
    /\ tasks = <<>>
    /\ calls = [c \in Slots |-> NoCall]
    /\ ncalls = 0
    /\ ret = NoRet
    /\ sent = {}
    /\ ext = NoExt
    /\ cret = "none"
    /\ beats = <<>>
    /\ text = NoText
    /\ result = NotParsed
    /\ msg = NotParsed
    /\ wire = <<>>
    /\ ServerNew

\* the manager used by one caller that awaits each call before the next
Next ==
    \/ \E c \in Slots, etype \in EffectType, params \in ParamChoices :
          ncalls < MaxSeqCalls /\ Quiescent /\ StartEffect(c, etype, params)
    \/ \E c \in Slots : ResumeStart(c)
    \/ \E c \in Slots : ncalls < MaxSeqCalls /\ Quiescent /\ StopEffect(c)
    \/ \E c \in Slots : ResumeStop(c)
    \/ \E c \in Slots : ncalls < MaxSeqCalls /\ Quiescent /\ Cleanup(c)
    \/ \E c \in Slots : ResumeCleanup(c)
    \/ \E bpm \in BpmChoices : UpdateTiming(bpm)
    \/ \E f \in FeatureChoices : UpdateFeatures(f)
    \/ \E t \in DOMAIN tasks : TaskStep(t)

Spec == Init /\ [][Next]_vars

\* the manager called from tasks that overlap, as VirtualDJSync._on_beat
\* launches one start_effect task per beat
OverlapNext ==
    \/ \E c \in Slots, etype \in OverlapTypes, params \in OverlapParams :
          ncalls < MaxCalls /\ StartEffect(c, etype, params)
    \/ \E c \in Slots : ResumeStart(c)
    \/ \E c \in Slots : ncalls < MaxCalls /\ StopEffect(c)
    \/ \E c \in Slots : ResumeStop(c)
    \/ \E c \in Slots : ncalls < MaxCalls /\ Cleanup(c)
    \/ \E c \in Slots : ResumeCleanup(c)
    \/ \E t \in DOMAIN tasks : TaskStep(t)

OverlapSpec == Init /\ [][OverlapNext]_vars

\* asyncio runs every coroutine that is ready; assumed here only of a loop task
\* that was cancelled and of a caller whose awaited task has finished
FairOverlapNext ==
    \/ \E c \in Slots, etype \in OverlapTypes, params \in OverlapParams :
          ncalls < MaxFairCalls /\ StartEffect(c, etype, params)
    \/ \E c \in Slots : ResumeStart(c)
    \/ \E c \in Slots : ncalls < MaxFairCalls /\ StopEffect(c)
    \/ \E c \in Slots : ResumeStop(c)
    \/ \E c \in Slots : ncalls < MaxFairCalls /\ Cleanup(c)
    \/ \E c \in Slots : ResumeCleanup(c)
    \/ \E t \in DOMAIN tasks : TaskStep(t)

FairOverlapSpec ==
    /\ Init /\ [][FairOverlapNext]_vars
    /\ WF_vars(\E t \in DOMAIN tasks : tasks[t].cancel /\ TaskStep(t))
    /\ WF_vars(\E c \in Slots : ResumeStart(c) \/ ResumeStop(c) \/ ResumeCleanup(c))

\* the manager used by one awaiting caller, with params and snapshots that make
\* the loops compute colors out of range and divide by a zero speed, next to
\* set_color calls made outside the loops
DeviceNext ==
    \/ \E c \in Slots, etype \in Constructible, params \in DeviceParams :
          ncalls < MaxDevCalls /\ Quiescent /\ StartEffect(c, etype, params)
    \/ \E c \in Slots : ResumeStart(c)
    \/ \E c \in Slots : ncalls < MaxDevCalls /\ Quiescent /\ StopEffect(c)
    \/ \E c \in Slots : ResumeStop(c)
    \/ \E f \in DeviceFeatures : UpdateFeatures(f)
    \/ \E color \in ColorChoices, raises \in BOOLEAN : SetColor(color, raises)
    \/ \E raises \in BOOLEAN : ResumeExt(raises)
    \/ \E t \in DOMAIN tasks : TaskStep(t)

DeviceSpec == Init /\ [][DeviceNext]_vars

\* overlapping start_effect / stop_effect calls for the Strobe effect next to
\* set_color and set_power calls made outside the loops: all the users of the
\* light lock
LockNext ==
    \/ \E c \in Slots : ncalls < MaxLockCalls /\ StartEffect(c, "STROBE", NoParams)
    \/ \E c \in Slots : ResumeStart(c)
    \/ \E c \in Slots : ncalls < MaxLockCalls /\ StopEffect(c)
    \/ \E c \in Slots : ResumeStop(c)
    \/ SetColor(Warm, FALSE)
    \/ SetPower(FALSE)
    \/ ResumeExt(FALSE)
    \/ \E t \in DOMAIN tasks : TaskStep(t)

LockSpec == Init /\ [][LockNext]_vars

\* the manager driven by the beat callback alone
BeatNext ==
    \/ \E bpm \in {1200, 1280}, strength \in {800, 1000} : OnBeat(bpm, strength)
    \/ \E c \in Slots : BeatTask(c)
    \/ \E c \in Slots : ResumeStart(c)
    \/ \E t \in DOMAIN tasks : TaskStep(t)

BeatSpec == Init /\ [][BeatNext]_vars

\* parse_message called once on a text received from the wire
ProtoInit ==
    /\ lights = 0
    /\ lockHolder = 0
    /\ lockWaiters = <<>>
    /\ objs = <<>>
    /\ effects = <<>>
    /\ active = 0
    /\ tasks = <<>>
    /\ calls = [c \in Slots |-> NoCall]
    /\ ncalls = 0
    /\ ret = NoRet
    /\ sent = {}
    /\ ext = NoExt
    /\ cret = "none"
    /\ beats = <<>>
    /\ text \in WireTexts
    /\ result = NotParsed
    /\ msg = NotParsed
    /\ wire = <<>>
    /\ ServerNew

ProtoNext == ParseStep

ProtoSpec == ProtoInit /\ [][ProtoNext]_vars

\* a message is encoded and the text is parsed
RoundInit ==
    /\ lights = 0
    /\ ManagerNew
    /\ text = NoText
    /\ result = NotParsed
    /\ msg \in RoundMessages
    /\ wire = <<>>
    /\ ServerNew

RoundNext ==
    \/ ToJsonStep
    \/ text # NoText /\ ParseStep

RoundSpec == RoundInit /\ [][RoundNext]_vars

\* the byte streams of a connection: every stream of at most MaxBytes bytes,
\* and streams of two messages between noise
FramerInit ==
    /\ lights = 0
    /\ ManagerNew
    /\ text = NoText
    /\ result = NotParsed
    /\ msg = NotParsed
    /\ ServerNew
    /\ wire \in UNION {[1 .. n -> {"{", "}", "a", "L", "T"}] : n \in 1 .. MaxBytes}
                \cup {<<"a", "a", "{", "c", "c", "}", "a", "a", "{", "b", "b", "}">>,
                      <<"a", "{", "L", "T", "}", "{", "a", "}">>}

FramerNext == \E k \in 1 .. Len(wire) : DataReceived(k)

FramerSpec == FramerInit /\ [][FramerNext]_vars

\* a connection that sends three messages, the second one malformed or
\* invalid, or a message and a button with a two-byte character
ServerInit ==
    /\ lights = 0
    /\ ManagerNew
    /\ text = NoText
    /\ result = NotParsed
    /\ msg = NotParsed
    /\ ServerNew
    /\ wire \in {<<"{", a, "}", "{", x, "}", "{", b, "}">> :
                    a \in {"c", "b", "t"}, x \in {"x", "i", "r", "p", "m"},
                    b \in {"c", "b", "t", "s"}}
                \cup {<<"{", "c", "}", "{", "L", "T", "}">>}

ServerNext ==
    \/ \E k \in 1 .. Len(wire) : DataReceived(k)
    \/ HandleStep
    \/ \E name \in {"", "a"}, page \in {Absent, Str("p"), Str("")}, state \in BOOLEAN :
          SendFeedback(name, page, state)

ServerSpec == ServerInit /\ [][ServerNext]_vars

\* the server after OS2LServer.__init__ and start: no connection yet
PeersInit ==
    /\ lights = 0
    /\ ManagerNew
    /\ text = NoText
    /\ result = NotParsed
    /\ msg = NotParsed
    /\ wire = <<>>
    /\ fed = <<>>
    /\ buffer = <<>>
    /\ extracted = <<>>
    /\ outcomes = <<>>
    /\ written = <<>>
    /\ fret = NoFeedback
    /\ connections = {}
    /\ transports = [p \in Peers |-> "none"]
    /\ listening = TRUE
    /\ lost = NoLost
    /\ AnalyzerNew

\* connections come and go, and the server is stopped once
PeersNext ==
    \/ \E p \in Peers : ConnectionMade(p)
    \/ \E p \in Peers : ConnectionLost(p)
    \/ Stop

PeersSpec == PeersInit /\ [][PeersNext]_vars

\* the analyzer fed one frame after the other by the audio callback
AudioInit ==
    /\ lights = 0
    /\ ManagerNew
    /\ text = NoText
    /\ result = NotParsed
    /\ msg = NotParsed
    /\ wire = <<>>
    /\ ServerNew

AudioNext == \E f \in FrameChoices : AnalyzeFrame(f)

AudioSpec == AudioInit /\ [][AudioNext]_vars

----------------------------------------------------------------------------
(* Claims *)

\* the last call returned, ran without overlapping another, and nothing was called since
ReturnedAlone(kind) ==
    ret.kind = kind /\ ret.alone /\ ~ret.failed /\ Quiescent /\ ncalls = ret.id

IsType(o, etype) == o # 0 /\ objs[o].type = etype

\* C1: under any interleaving of start_effect and stop_effect calls, also
\* overlapping ones, at most one effect loop task is alive at any time.
C1_AtMostOneLoopAlive == Cardinality(AliveTasks) <= 1

\* C2: once start_effect(STROBE), called and awaited while PULSE was active,
\* has returned, STROBE is the active effect and no other loop is alive ...
C2_After ==
    (ReturnedAlone("start") /\ ret.etype = "STROBE" /\ IsType(ret.was, "PULSE"))
        => /\ IsType(active, "STROBE")
           /\ \A t \in AliveTasks : tasks[t].obj = active

\* ... and the step that creates the STROBE loop task finds every PULSE loop task finished
C2_Order ==
    (Len(tasks') = Len(tasks) + 1 /\ objs'[tasks'[Len(tasks')].obj].type = "STROBE")
        => \A t \in DOMAIN tasks : objs[tasks[t].obj].type = "PULSE" => ~Alive(t)

\* C2: start_effect(PULSE) then start_effect(STROBE), each awaited, leaves STROBE
\* the only active effect, the PULSE loop finished before the STROBE loop started.
C2_StrobeReplacesPulse == [](C2_After) /\ [][C2_Order]_vars

C2_Witness ==
    /\ ReturnedAlone("start") /\ ret.etype = "STROBE" /\ IsType(ret.was, "PULSE")
    /\ \E t \in TasksOf(active) : tasks[t].pc = "color"

\* C3: when stop_effect() returns, the loop of the effect that was active at the
\* call has exited and the active reference is empty, in every reachable state.
C3_StopLeavesNoLoop ==
    ReturnedAlone("stop")
        => /\ active = 0
           /\ ret.was # 0 => \A t \in TasksOf(ret.was) : ~Alive(t)

\* C4: with no manager call in progress, every cached effect other than the
\* active one has its running flag false and no live loop task, and with an
\* empty active reference no loop is alive.
C4_InactiveStopped ==
    Quiescent
        => /\ \A i \in DOMAIN effects :
                effects[i] # active
                    => ~objs[effects[i]].running /\ \A t \in TasksOf(effects[i]) : ~Alive(t)
           /\ active = 0 => AliveTasks = {}

\* C5: with a light registered no effect loop waits forever for the light lock:
\* no loop waits for the lock while it is the one holding it.
C5_NoLoopWaitsOnItself ==
    \A t \in DOMAIN tasks : ~(tasks[t].pc = "color" /\ lockHolder = t)

\* C6 (parts): a loop that has exited holds the lock no longer and waits for it no longer
C6_LockFreed ==
    /\ lockHolder # 0 => Alive(lockHolder)
    /\ \A i \in DOMAIN lockWaiters : Alive(lockWaiters[i])

\* C6 (parts): the next step of a cancelled loop is its exit
C6_CancelExits ==
    \A t \in DOMAIN tasks :
        (Alive(t) /\ tasks[t].cancel /\ tasks'[t] # tasks[t]) => tasks'[t].pc = "done"

\* C6: stop_effect() always returns: the cancelled loop exits at the await it is
\* suspended at without another iteration, and the light lock is free of it.
C6_StopReturns ==
    /\ \A c \in Slots : (calls[c].kind = "stop") ~> (calls[c].kind # "stop")
    /\ []C6_LockFreed
    /\ [][C6_CancelExits]_vars

C6_Witness ==
    \E c \in Slots :
        /\ calls[c].kind = "stop"
        /\ tasks[calls[c].task].pc = "color"
        /\ lockHolder = calls[c].task

\* C7: after cleanup() returns, from any reachable state, the cache and the
\* active reference are empty and no loop task is alive.
C7_CleanupLeavesNothing ==
    ReturnedAlone("cleanup") => effects = <<>> /\ active = 0 /\ AliveTasks = {}

\* C8: no effect instance ever holds params with speed outside [0,10] or
\* intensity outside [0,1].
C8_ParamsInRange == \A o \in DOMAIN objs : ParamsValid(objs[o].params)

\* C9: selecting the Static variant makes Static the active effect.
C9_StaticBecomesActive ==
    (ReturnedAlone("start") /\ ret.etype = "STATIC") => IsType(active, "STATIC")

\* C10 (one step): the beat interval of an object changes only while it is the
\* active Pulse effect, and an update_timing step does what the claim says
C10_Timing ==
    /\ \A o \in DOMAIN objs :
          objs'[o].beat # objs[o].beat => o = active /\ objs[o].type = "PULSE"
    /\ \A bpm \in BpmChoices :
          UpdateTiming(bpm)
              => IF IsType(active, "PULSE")
                 THEN objs'[active].beat = 60000000 \div bpm
                 ELSE UNCHANGED vars

\* C10: update_timing(bpm) sets the beat interval to 60/bpm on the active effect
\* when that is the Pulse variant and changes no state at all otherwise, so a
\* cached but inactive Pulse instance keeps its beat interval.
C10_UpdateTiming == [][C10_Timing]_vars

C10_Witness ==
    \E o \in DOMAIN objs :
        /\ objs[o].type = "PULSE" /\ objs[o].beat = 468750
        /\ active # o /\ IsType(active, "STROBE")

\* C11 (one step): the snapshot of an object changes only while it is the active
\* Music effect, and an update_features step does what the claim says
C11_Features ==
    /\ \A o \in DOMAIN objs :
          objs'[o].features # objs[o].features => o = active /\ objs[o].type = "MUSIC"
    /\ \A f \in FeatureChoices :
          UpdateFeatures(f)
              => IF IsType(active, "MUSIC")
                 THEN objs'[active].features = f
                 ELSE UNCHANGED vars

\* C11: update_features(snapshot) replaces the stored snapshot of the active
\* effect only when that is the Music variant; with no active effect or another
\* variant active it changes no state at all.
C11_UpdateFeatures == [][C11_Features]_vars

C11_Witness ==
    \E o \in DOMAIN objs :
        /\ objs[o].type = "MUSIC" /\ objs[o].features = BandSnapshot
        /\ active # o /\ IsType(active, "RAINBOW")

\* C12 (state): the cache holds at most one instance per effect variant
C12_OnePerVariant ==
    \A i, j \in DOMAIN effects :
        i # j => objs[effects[i]].type # objs[effects[j]].type

\* C12 (one call): a start_effect(etype, params) that reaches its end in this
\* step reuses the cached instance of the variant, with the supplied params or
\* else its previous ones, and constructs and caches the instance when there is none
C12_Start(etype, params) ==
    LET cached == {i \in DOMAIN effects : objs[effects[i]].type = etype}
    IN  IF cached # {}
        THEN LET e == effects[CHOOSE i \in cached : TRUE]
             IN  /\ effects' = effects
                 /\ Len(objs') = Len(objs)
                 /\ active' = e
                 /\ objs'[e].params = IF params # NoParams THEN params ELSE objs[e].params
        ELSE /\ Len(objs') = Len(objs) + 1
             /\ objs'[Len(objs')].type = etype
             /\ effects' = Append(effects, Len(objs'))
             /\ active' = Len(objs')

\* C12 (one step) for the variants in types
C12_Step(types) ==
    /\ \A c \in Slots, etype \in types, params \in ParamChoices :
          (StartEffect(c, etype, params) /\ calls'[c] = NoCall) => C12_Start(etype, params)
    /\ \A c \in Slots :
          (ResumeStart(c) /\ calls[c].etype \in types)
              => C12_Start(calls[c].etype, calls[c].params)
    /\ \A i \in DOMAIN effects :
          (\A j \in DOMAIN effects' : effects'[j] # effects[i])
              => ret' # ret /\ ret'.kind = "cleanup" /\ effects' = <<>>

\* C12: the scheduler holds at most one instance per effect variant: the first
\* start_effect for a variant constructs it, every later one reuses the same
\* instance, replacing its params when params are supplied and keeping them when
\* not, and instances leave the cache only through cleanup().
C12_OneInstancePerVariant == [](C12_OnePerVariant) /\ [][C12_Step(EffectType)]_vars

\* the same for the variants that _create_effect constructs
C12_ConstructibleCached == [](C12_OnePerVariant) /\ [][C12_Step(Constructible)]_vars

\* C13 (one step): the step in which a start_effect call made while its own
\* variant was active reaches its end
C13_RestartEnds ==
    ret' # ret /\ ret'.kind = "start" /\ ~ret'.failed /\ IsType(ret'.was, ret'.etype)

C13_Restart ==
    C13_RestartEnds
        => /\ active' = ret'.was
           /\ Len(tasks') = Len(tasks) + 1
           /\ tasks'[Len(tasks')].obj = active'
           /\ objs'[active'].running /\ objs'[active'].task = Len(tasks')
           /\ \A t \in DOMAIN tasks : tasks[t].obj = active' => ~Alive(t)

\* C13: start_effect with the variant that is already active stops the running
\* loop, waits for it to finish and starts exactly one new loop for the same
\* instance: the old loop has finished when the new one is created, and the
\* instance's task handle refers to the new loop.
C13_RestartsCleanly == [][C13_Restart]_vars

\* the declared ranges of a color
C14_InRange(c) ==
    /\ c.hue \in 0 .. 65535
    /\ c.saturation \in 0 .. 65535
    /\ c.brightness \in 0 .. 65535
    /\ c.kelvin \in 1500 .. 9000

\* C14 (one step): controller.set_color called with a color out of range
\* returns failure and sends nothing
C14_Rejects ==
    \A color \in ColorChoices, raises \in BOOLEAN :
        (SetColor(color, raises) /\ ~C14_InRange(color)) => cret' = "fail" /\ sent' = sent

\* C14: no color outside the declared ranges ever reaches a device: whatever
\* the effect, its params and the snapshot, light.set_color is called only with
\* hue, saturation and brightness in [0,65535] and kelvin in [1500,9000], and a
\* color that fails validation becomes a failure result and is not sent.
C14_NoInvalidColorSent == [](\A c \in sent : C14_InRange(c)) /\ [][C14_Rejects]_vars

\* a color has been sent, the out-of-range one has been refused, and a Pulse
\* loop sleeps after a batch whose color (intensity 2.5) was refused
C14_Witness ==
    /\ sent = {Warm} /\ cret = "fail"
    /\ lights > 0
    /\ \E t \in DOMAIN tasks :
          /\ objs[tasks[t].obj].type = "PULSE"
          /\ tasks[t].pc = "sleep" /\ tasks[t].ph = 1
          /\ ~C14_InRange(PulseColor(tasks[t].obj, 1))

\* a loop is inside an emission batch: it has entered its `async with
\* self.controller._light_lock` and is suspended in it
C15_InBatch(t) == tasks[t].pc = "color"

\* C15 (state): a loop inside its batch holds the lock, so there is at most one
C15_BatchHoldsLock == \A t \in DOMAIN tasks : C15_InBatch(t) => lockHolder = t

\* this step makes a device command for the caller outside the loops
C15_CallerCommand ==
    \E raises \in BOOLEAN :
        \/ ResumeExt(raises)
        \/ SetPower(raises) /\ ext' = NoExt
        \/ \E color \in ColorChoices : SetColor(color, raises) /\ ext' = NoExt /\ sent' = sent \cup {color}

\* this step makes a device command for loop t
C15_LoopCommand(t) == tasks'[t].emits > tasks[t].emits

\* C15 (one step): a device command is made while no other task is inside a batch
C15_CommandAlone ==
    /\ C15_CallerCommand => lockHolder = 0 /\ \A t \in DOMAIN tasks : ~C15_InBatch(t)
    /\ \A t \in DOMAIN tasks :
          C15_LoopCommand(t) => \A u \in DOMAIN tasks : C15_InBatch(u) => u = t

\* C15: device commands are serialized by the controller's light lock: at most
\* one task, a loop or a set_power / set_color call made outside a loop, is
\* inside a device command at any time, and no command of another loop or
\* caller falls inside the emission batch of a loop.
C15_Serialized == [](C15_BatchHoldsLock) /\ [][C15_CommandAlone]_vars

\* one loop is inside its batch while a second live loop and the caller
\* outside the loops both wait for the lock
C15_Witness ==
    /\ ext # NoExt
    /\ \E t, u \in DOMAIN tasks :
          /\ t # u /\ Alive(u) /\ ~tasks[u].cancel /\ ~tasks[t].cancel
          /\ C15_InBatch(t) /\ tasks[u].pc = "lock"

\* C16 (one step): controller.set_color called outside a loop returns failure
\* when the color is out of range or the light's set_color raises
C16_ReturnsFailure ==
    /\ \A color \in ColorChoices, raises \in BOOLEAN :
          (SetColor(color, raises) /\ ext' = NoExt /\ (raises \/ ~C14_InRange(color)))
              => cret' = "fail"
    /\ (ResumeExt(TRUE) /\ cret' # "ok") => cret' = "fail"

\* the phase of the batch that the next step of loop t enters
C16_Phase(t) ==
    CASE tasks[t].pc = "lock" -> tasks[t].ph
      [] tasks[t].pc = "sleep" /\ tasks[t].ph = 1
            /\ objs[tasks[t].obj].type \in {"PULSE", "STROBE"} -> 2
      [] OTHER -> 1

\* the set_color calls of the batch that the next step of loop t enters all fail
C16_BatchFails(t) ==
    /\ tasks[t].pc \in {"new", "sleep", "lock"} /\ ~tasks[t].cancel
    /\ objs[tasks[t].obj].running /\ lights > 0
    /\ CASE objs[tasks[t].obj].type = "CHASE" ->
              \A i \in 1 .. lights : ~C14_InRange(ChaseColor(tasks[t].obj, i, tasks[t].pos, lights))
         [] objs[tasks[t].obj].type = "MUSIC" ->
              objs[tasks[t].obj].features # EmptyFeatures /\ ~C14_InRange(MusicColor(tasks[t].obj))
         [] OTHER -> ~C14_InRange(BatchColor(tasks[t], C16_Phase(t)))

\* C16 (one step): a loop whose set_color calls fail goes through all lights
\* and on to the sleep that ends the batch, the Rainbow loop with its hue
\* advanced, unless it first has to wait for the lock of the batch or, in the
\* Chase loop, for the lock taken for a later light
C16_LoopGoesOn ==
    \A t \in DOMAIN tasks :
        (TaskStep(t) /\ C16_BatchFails(t))
            => /\ sent' = sent
               /\ \/ /\ tasks'[t].pc = "sleep" /\ tasks'[t].ph = C16_Phase(t)
                     /\ objs[tasks[t].obj].type = "RAINBOW"
                            => tasks'[t].hue = tasks[t].hue + 1000
                  \/ /\ tasks'[t].pc = "lock"
                     /\ tasks[t].pc # "lock" \/ tasks'[t].li > tasks[t].li
                     /\ lockHolder # 0 \/ LiveWaiters(Without(lockWaiters, t)) # <<>>

C17_LoopSurvivesFaults ==
    \A t \in DOMAIN tasks :
        LET o == tasks[t].obj
        IN  ( /\ objs[o].running /\ objs[o].task = t /\ ~tasks[t].cancel
              /\ ParamsValid(objs[o].params)
              /\ ~(objs[o].type = "CHASE" /\ lights = 0) )
                => Alive(t)

\* a text whose fields are plain JSON numbers, whole where the field is an integer
C18_Plain(j, whole) == j.t = "num" /\ (whole => j.n % 10 = 0)

\* the strength a beat text carries, 100.0 when it carries none
C18_Strength == IF text.strength = Absent THEN 1000 ELSE text.strength.n

C18_BeatInRange ==
    /\ 300 <= text.bpm.n /\ text.bpm.n <= 3000
    /\ 0 <= C18_Strength /\ C18_Strength <= 1000

C18_CommandInRange ==
    /\ text.id.n \in {10, 20, 30, 40}
    /\ 0 <= text.param.n /\ text.param.n <= 1000

\* a field outside its range: whatever the other fields are, no message
C18_OutOfRangeRejected ==
    /\ ( /\ text.evt = Str("beat")
         /\ \/ text.bpm.t = "num" /\ (text.bpm.n < 300 \/ text.bpm.n > 3000)
            \/ text.strength.t = "num" /\ (text.strength.n < 0 \/ text.strength.n > 1000) )
          => result.out # "message"
    /\ ( /\ text.evt = Str("cmd")
         /\ \/ C18_Plain(text.id, TRUE) /\ text.id.n \notin {10, 20, 30, 40}
            \/ text.param.t = "num" /\ (text.param.n < 0 \/ text.param.n > 1000) )
          => result.out # "message"
    /\ (text.evt = Str("btn") /\ text.state \notin {Str("on"), Str("off")})
          => result.out # "message"

\* every field inside its range: the message, with the fields of the text
C18_InRangeReturned ==
    /\ ( /\ text.evt = Str("beat") /\ C18_Plain(text.pos, TRUE) /\ C18_Plain(text.bpm, FALSE)
         /\ text.strength.t \in {"num", "absent"} /\ C18_BeatInRange )
          => /\ result.out = "message" /\ result.evt = "beat"
             /\ result.pos * 10 = text.pos.n /\ result.bpm = text.bpm.n
             /\ result.strength = C18_Strength
    /\ ( /\ text.evt = Str("cmd") /\ C18_Plain(text.id, TRUE) /\ C18_Plain(text.param, FALSE)
         /\ C18_CommandInRange )
          => /\ result.out = "message" /\ result.evt = "cmd"
             /\ result.id * 10 = text.id.n /\ result.param = text.param.n
    /\ ( /\ text.evt = Str("btn") /\ text.name.t = "str" /\ text.name.s # ""
         /\ text.state \in {Str("on"), Str("off")} )
          => /\ result.out = "message" /\ result.evt = "btn"
             /\ Str(result.name) = text.name /\ Str(result.state) = text.state
             /\ result.page = text.page

C19_NegativePositionRejected ==
    ( /\ result # NotParsed /\ text.evt = Str("beat")
      /\ text.pos.t = "num" /\ text.pos.n < 0 )
        => result.out # "message"

\* C20: parse_message never raises: for every input text (invalid JSON, JSON
\* that is not an object, fields of the wrong type, numeric fields that cannot
\* be converted such as an infinite position, out-of-range values) it returns
\* either a validated message or None.
C20_NeverRaises == result.out \in {"pending", "message", "none"}

\* the evt field is missing or selects no inbound variant
C21_NoVariant ==
    text.form = "object" /\ text.evt \notin {Str("beat"), Str("btn"), Str("cmd")}

\* a required field of the selected variant is missing
C21_FieldMissing ==
    \/ text.evt = Str("beat") /\ (text.pos = Absent \/ text.bpm = Absent)
    \/ text.evt = Str("btn") /\ (text.name = Absent \/ text.state = Absent)
    \/ text.evt = Str("cmd") /\ (text.id = Absent \/ text.param = Absent)

\* C21: parse_message returns None when the evt field is missing or is any
\* value other than beat, btn or cmd (feedback included), and when a required
\* field of the selected variant is missing (pos or bpm for beat, name or
\* state for btn, id or param for cmd).
C21_MissingGivesNone ==
    (result # NotParsed /\ (C21_NoVariant \/ C21_FieldMissing)) => result.out = "none"

\* the same without the texts whose integer field is infinite: no message
\* and no exception
C21_MissingGivesNoneFinite ==
    ( /\ result # NotParsed /\ (C21_NoVariant \/ C21_FieldMissing)
      /\ text.pos # Infinity /\ text.id # Infinity )
        => result.out = "none"

\* C22: round trip: for every BeatMessage, ButtonMessage and CommandMessage
\* whose fields are within the declared ranges, parse_message(m.to_json())
\* returns a message of the same variant with exactly equal field values, an
\* absent page staying absent and a present page staying equal.
C22_RoundTrip == result # NotParsed => result = msg

\* the same for the messages whose page is not the empty string
C22_RoundTripPaged == (result # NotParsed /\ msg.page # Str("")) => result = msg

\* the messages extracted when the bytes received so far arrive as one chunk
C25_Whole == Scan(Utf8(fed).s, <<>>).msgs

\* C25: chunking does not change framing: for every input text and every way
\* of cutting it into consecutive chunks passed to data_received, the sequence
\* of extracted message texts equals the sequence extracted when the whole
\* text arrives as one chunk.
C25_ChunkingKeepsFraming == Utf8(fed).ok => extracted = C25_Whole

\* the same for the streams of ASCII characters, the noise/cmd/trailing/btn
\* stream among them
C25_AsciiChunkingKeepsFraming ==
    (\A i \in 1 .. Len(fed) : fed[i] \notin {"L", "T"}) => extracted = C25_Whole

\* the positions of the bytes f holding a `{` with no `}` after it
C26_Open(f) == {i \in 1 .. Len(f) : f[i] = "{" /\ \A j \in i .. Len(f) : f[j] # "}"}

C26_IsSuffix(x, y) == Len(x) <= Len(y) /\ x = SubSeq(y, Len(y) - Len(x) + 1, Len(y))

\* the text from an open `{` onward is in the buffer, and input with no `{`
\* at all leaves nothing
C26_Kept ==
    /\ \A i \in C26_Open(fed) :
          Utf8(SubSeq(fed, i, Len(fed))).ok
            => C26_IsSuffix(Utf8(SubSeq(fed, i, Len(fed))).s, buffer)
    /\ (\A i \in 1 .. Len(fed) : fed[i] # "{") => buffer = <<>> /\ extracted = <<>>

\* a call made while a `{` is open extracts a message exactly when it
\* receives a `}`
C26_Closing ==
    (C26_Open(fed) # {} /\ fed' # fed)
        => (Len(extracted') > Len(extracted)
              <=> \E j \in Len(fed) + 1 .. Len(fed') : fed'[j] = "}")

\* C26: as long as the input received so far contains an opening `{` with no
\* `}` after it, data_received extracts no message and keeps the text from
\* that `{` onward across any number of chunks; the message is extracted in
\* the call that receives the closing `}`.  Input with no `{` at all is
\* discarded entirely.
C26_IncompleteIsKept == [](Utf8(fed).ok => C26_Kept) /\ [][C26_Closing]_vars

\* the same for the streams of ASCII characters
C26_AsciiIncompleteIsKept ==
    /\ []((\A i \in 1 .. Len(fed) : fed[i] \notin {"L", "T"}) => C26_Kept)
    /\ [][(\A i \in 1 .. Len(fed') : fed'[i] \notin {"L", "T"}) => C26_Closing]_vars

\* the keys of a written record, in order
C23_Keys(w) == [i \in 1 .. Len(w.record) |-> w.record[i][1]]

\* the value a written record gives to key k; the record has the key once
C23_Value(w, k) == w.record[CHOOSE i \in 1 .. Len(w.record) : w.record[i][1] = k][2]

\* the record written last is the encoding of the last request
C23_Encoded ==
    LET w == written[Len(written)]
    IN  /\ C23_Keys(w) = IF fret.page \in {Absent, Str("")}
                         THEN <<"evt", "name", "state">>
                         ELSE <<"evt", "name", "state", "page">>
        /\ C23_Value(w, "evt") = "feedback"
        /\ C23_Value(w, "name") = fret.name
        /\ C23_Value(w, "state") = IF fret.state THEN "on" ELSE "off"
        /\ fret.page \notin {Absent, Str("")} => Str(C23_Value(w, "page")) = fret.page
        /\ w.tail = <<"\n">>
        /\ \A i \in 1 .. Len(w.record) : w.record[i][2] # "\n"

\* C23: encoding a feedback message is deterministic: the record carries the
\* fields in the order evt, name, state and then page only when a page is
\* present; state is "on" for true and "off" for false; the codec adds no
\* framing, and send_message appends exactly one newline to each record it
\* writes.
C23_FeedbackEncoding == fret.out # "none" => C23_Encoded

\* a feedback with a page has been written: the page comes last
C23_Witness ==
    /\ Len(written) >= 1
    /\ fret.page = Str("p") /\ fret.state
    /\ C23_Keys(written[Len(written)]) = <<"evt", "name", "state", "page">>

\* C24: an invalid outbound feedback request (an empty button name) raises to
\* the caller of send_feedback, writes nothing to any connection, and leaves
\* the receive buffer of every connection unchanged.
C24_InvalidFeedbackRaises ==
    [][(fret' # fret /\ fret'.name = "")
          => (fret'.out = "raised" /\ written' = written /\ buffer' = buffer)]_vars

\* a call of data_received creates a task for every complete message its
\* chunk contains and runs none of the tasks itself
C27_Dispatched ==
    fed' # fed
      => /\ Len(extracted') - Len(extracted)
              >= Len(Scan(SubSeq(fed', Len(fed) + 1, Len(fed')), <<>>).msgs)
         /\ outcomes' = outcomes

\* the tasks run in the order of extraction
C27_InOrder ==
    /\ Len(outcomes) <= Len(extracted)
    /\ \A i \in 1 .. Len(outcomes) : outcomes[i].text = extracted[i]

\* C27: messages of one connection are handled in arrival order and handling
\* never delays extraction: every complete message contained in a chunk is
\* extracted and dispatched as its own handler task before data_received
\* returns, and for messages extracted in the order m1, m2 the server
\* callback for m1 is invoked before the callback for m2.
C27_ArrivalOrder == []C27_InOrder /\ [][C27_Dispatched]_vars

\* the same for the chunks of ASCII characters
C27_AsciiArrivalOrder ==
    /\ []C27_InOrder
    /\ [][(\A i \in 1 .. Len(fed') : fed'[i] \notin {"L", "T"}) => C27_Dispatched]_vars

\* what handle_message has to do with the message text m
C28_Expected(m) ==
    LET p == ParseMessage(TextOf(m))
    IN  IF p.out = "message"
        THEN CASE p.evt = "beat" -> "beat" [] p.evt = "btn" -> "button" [] OTHER -> "command"
        ELSE "ignored"

C29_MusicTasks == {t \in DOMAIN tasks : objs[tasks[t].obj].type = "MUSIC"}

\* a Music loop no snapshot has been routed to has issued no command
C29_SilentBefore ==
    \A t \in C29_MusicTasks :
        objs[tasks[t].obj].features = EmptyFeatures => tasks[t].emits = 0

\* an iteration of a running Music loop that has a snapshot, with a light
\* registered, issues commands
C29_IssuesAfter ==
    \A t \in C29_MusicTasks :
        ( /\ tasks[t].pc \in {"new", "sleep"} /\ ~tasks[t].cancel
          /\ objs[tasks[t].obj].running /\ lights > 0
          /\ objs[tasks[t].obj].features # EmptyFeatures
          /\ tasks'[t] # tasks[t] /\ ~tasks'[t].cancel )
            => tasks'[t].emits > tasks[t].emits

\* C29: an active Music effect issues no device command as long as no feature
\* snapshot has been routed to it, however many ticks pass, and it begins
\* issuing commands after the first update_features call that reaches it.
C29_MusicWaitsForFeatures == []C29_SilentBefore /\ [][C29_IssuesAfter]_vars

\* the start_effect task of beat number n has finished: the active effect is
\* Pulse with the intensity and the beat interval of that beat (the rise
\* phase is a quarter of the interval)
C30_Synced(n) ==
    /\ active' # 0
    /\ objs'[active'].type = "PULSE"
    /\ objs'[active'].params.intensity = beats[n].params.intensity
    /\ objs'[active'].beat = 600000000 \div beats[n].bpm

\* C30: after a beat event with bpm B and strength S has been handled (the
\* start_effect task launched by the beat handler has finished), the active
\* effect is Pulse with intensity S/100, beat interval 60/B and rise phase
\* 0.25 x 60/B; this holds for every beat of a stream, including the first
\* one received while no effect is active.
C30_BeatSetsPulse == [][(ret' # ret /\ ret'.kind = "start") => C30_Synced(ret'.id)]_vars

\* the intensity alone, for a start_effect task that did not overlap another
C30_BeatSetsIntensity ==
    [][(ret' # ret /\ ret'.kind = "start" /\ ret'.alone)
          => /\ active' # 0 /\ objs'[active'].type = "PULSE"
             /\ objs'[active'].params = beats[ret'.id].params]_vars

\* the Music effects that hold a snapshot keyed by the six band names
C33_Fed ==
    {o \in DOMAIN objs : objs[o].type = "MUSIC" /\ objs[o].features = BandSnapshot}

\* what the loop of MusicEffect computes from such a snapshot: the hue follows
\* the bass band, saturation and brightness are 0 (the keys 'mids' and
\* 'highs' are in no snapshot)
C33_HueOnly ==
    \A o \in C33_Fed :
        MusicColor(o) =
            LightColor((Get(objs[o].features, "bass", 0) * 21845) \div 100, 0, 0, 3500)

\* C33: from a snapshot keyed by the six band names the Music effect computes
\* hue = int(bass x 21845), saturation = int(mid x 65535) and brightness =
\* int(high x 65535 x intensity), so that a non-zero mid and high energy give
\* a non-zero saturation and brightness.
C33_MusicColorFromBands ==
    \A o \in C33_Fed :
        LET f == objs[o].features
            c == MusicColor(o)
        IN  /\ c.hue = (Get(f, "bass", 0) * 21845) \div 100
            /\ c.saturation = (Get(f, "mid", 0) * 65535) \div 100
            /\ c.brightness =
                   (Get(f, "high", 0) * 65535 * objs[o].params.intensity) \div 10000
            /\ (Get(f, "mid", 0) > 0 => c.saturation > 0)
            /\ (Get(f, "high", 0) > 0 /\ objs[o].params.intensity > 0 => c.brightness > 0)

\* the chunk a call of data_received has just taken, decoded
C34_Chunk == Utf8(SubSeq(fed', Len(fed) + 1, Len(fed')))

\* the messages a call of data_received has just extracted
C34_New == SubSeq(extracted', Len(extracted) + 1, Len(extracted'))

\* the `{` of the text s that are followed up to position j by no `}`
C34_Starts(s, j) ==
    {i \in 1 .. j - 1 : s[i] = "{" /\ \A q \in i .. j - 1 : s[q] # "}"}

\* the `}` of the text s that end a message: those with a `{` since the `}`
\* before them
C34_Closers(s) == {j \in 1 .. Len(s) : s[j] = "}" /\ C34_Starts(s, j) # {}}

\* the message the closer j ends: from the first `{` after the previous `}`
C34_Message(s, j) ==
    SubSeq(s, CHOOSE i \in C34_Starts(s, j) : \A q \in C34_Starts(s, j) : i <= q, j)

C34_Step ==
    (fed' # fed /\ C34_Chunk.ok) =>
        LET s == buffer \o C34_Chunk.s
        IN  /\ Len(C34_New) = Cardinality(C34_Closers(s))
            /\ \A j \in C34_Closers(s) :
                  C34_New[Cardinality({c \in C34_Closers(s) : c <= j})] = C34_Message(s, j)

\* C34: framing is not nesting-aware: every message runs from the first `{`
\* through the first `}` that follows it, whatever lies between them, and the
\* text from that `}` up to the next `{` (an outer closing brace for example)
\* is dropped without producing a message.
C34_FirstCloseCuts == [][C34_Step]_vars

\* the nested text {{}} has given the one message {{} and its outer closing
\* brace is gone
C34_Witness ==
    /\ fed = <<"{", "{", "}", "}">>
    /\ extracted = << <<"{", "{", "}">> >>
    /\ buffer = <<>>

\* the buffer is empty, or it starts with `{` and holds no `}`
C36_Shape ==
    buffer = <<>> \/ (buffer[1] = "{" /\ \A i \in 1 .. Len(buffer) : buffer[i] # "}")

RECURSIVE C36_Total(_)
C36_Total(msgs) == IF msgs = <<>> THEN 0 ELSE Len(Head(msgs)) + C36_Total(Tail(msgs))

\* what a call extracts and what it leaves in the buffer is taken from the
\* buffer it started with and the chunk: every pass of the loop that goes on
\* removes its message from the buffer
C36_Shrinks ==
    fed' # fed =>
        /\ Len(buffer') + C36_Total(C34_New) <= Len(buffer) + Len(fed') - Len(fed)
        /\ \A i \in 1 .. Len(C34_New) : Len(C34_New[i]) >= 2

\* C36: after every data_received call, whatever the chunk, the buffer is
\* either empty or starts with `{` and contains no `}`; the scan loop ends
\* for every buffer content, each pass either stopping or removing the
\* extracted span from the buffer.
C36_BufferShape == []C36_Shape /\ [][C36_Shrinks]_vars

\* a call has dropped the text before the first `{` and kept the open message
C36_Witness ==
    /\ fed = <<"a", "}", "{", "a">>
    /\ buffer = <<"{", "a">>
    /\ extracted = <<>>

\* the step in which a start_effect call that no other call overlapped returns
C38_Returns == ret' # ret /\ ret'.kind = "start" /\ ret'.alone

C38_Step ==
    C38_Returns =>
        /\ active' # 0 => objs'[active'].running
        /\ (ret'.etype \notin Constructible /\ ret'.was # 0)
              => active' = ret'.was /\ objs'[ret'.was].running

\* a start_effect that returns with a constructible variant leaves that
\* variant active and running
C38_StartedRuns ==
    [][(C38_Returns /\ ret'.etype \in Constructible)
          => (active' # 0 /\ objs'[active'].running /\ objs'[active'].type = ret'.etype)]_vars

\* C38: a start_effect call for a variant that cannot be constructed leaves
\* the scheduler unchanged: the previously active effect is still running and
\* is still the active reference; and whenever start_effect returns, a
\* non-empty active reference designates an effect whose running flag is true.
C38_FailedStartChangesNothing == [][C38_Step]_vars

\* the first step of the loop task of a re-selected Music effect (the object
\* had a task before) that kept a snapshot
C39_Reselected(t) ==
    /\ objs[tasks[t].obj].type = "MUSIC"
    /\ \E u \in DOMAIN tasks : u < t /\ tasks[u].obj = tasks[t].obj
    /\ tasks[t].pc = "new" /\ ~tasks[t].cancel
    /\ objs[tasks[t].obj].running
    /\ objs[tasks[t].obj].features # EmptyFeatures
    /\ tasks'[t] # tasks[t] /\ ~tasks'[t].cancel

\* a snapshot changes only in an update_features step made while its Music
\* effect is the active one, so stop() and start() keep it
C39_OnlyRouted ==
    \A o \in DOMAIN objs :
        objs'[o].features # objs[o].features
            => /\ o = active /\ objs[o].type = "MUSIC"
               /\ \E f \in FeatureChoices : UpdateFeatures(f)

\* the re-selected loop does not sleep for a snapshot: its first iteration
\* goes into the batch with the color of the snapshot it kept
C39_KeepsSnapshot ==
    [][/\ C39_OnlyRouted
       /\ \A t \in DOMAIN tasks : C39_Reselected(t) => tasks'[t].ph = 1]_vars

\* C39: the stored snapshot of a Music instance changes only through
\* update_features calls made while Music is the active effect; stopping and
\* re-selecting Music keeps the snapshot stored last, so the re-selected
\* effect emits from that old snapshot without waiting for a new one.
C39_ReselectedEmits ==
    [][/\ C39_OnlyRouted
       /\ \A t \in DOMAIN tasks :
             (C39_Reselected(t) /\ lights > 0)
                => /\ tasks'[t].emits > 0
                   /\ tasks'[t].out = {MusicColor(tasks[t].obj)}]_vars

C35_ChaseTasks == {t \in DOMAIN tasks : objs[tasks[t].obj].type = "CHASE"}

\* int(65535 x max(0, 1 - |i - position| / n) x intensity) for the light with
\* enumerate index i, intensity in hundredths
C35_Brightness(i, pos, n, intensity) ==
    LET d == IF i >= pos THEN i - pos ELSE pos - i
        falloff == IF n - d > 0 THEN n - d ELSE 0
    IN  (65535 * falloff * intensity) \div (n * 100)

\* the colors the loop computes: the position is a device index, and the
\* brightness is the falloff, within range when the intensity is
C35_Computed ==
    \A t \in C35_ChaseTasks :
        lights >= 1 =>
            /\ tasks[t].pos \in 0 .. lights - 1
            /\ \A i \in 1 .. lights :
                  LET c == ChaseColor(tasks[t].obj, i, tasks[t].pos, lights)
                      int == objs[tasks[t].obj].params.intensity
                  IN  /\ c.brightness = C35_Brightness(i - 1, tasks[t].pos, lights, int)
                      /\ int \in 0 .. 100 => c.brightness \in 0 .. 65535

\* a step of a Chase loop task that has not been cancelled
C35_Runs(t) ==
    /\ t \in C35_ChaseTasks
    /\ tasks[t].pc \in {"new", "sleep"} /\ ~tasks[t].cancel
    /\ objs[tasks[t].obj].running
    /\ tasks'[t] # tasks[t] /\ ~tasks'[t].cancel

\* without lights the loop ends in its first step, emits nothing and leaves
\* the running flag and the active reference as they are
C35_NoLights ==
    \A t \in DOMAIN tasks :
        (C35_Runs(t) /\ lights = 0)
            => /\ tasks'[t].pc = "done" /\ tasks'[t].emits = 0
               /\ objs'[tasks[t].obj].running
               /\ active' = active

\* a tick with lights and an intensity within [0,1]: every device is sent its
\* brightness and the position advances by one modulo n
C35_Tick ==
    \A t \in DOMAIN tasks :
        ( /\ C35_Runs(t) /\ lights >= 1
          /\ objs[tasks[t].obj].params.speed > 0
          /\ objs[tasks[t].obj].params.intensity \in 0 .. 100 )
            => /\ tasks'[t].pos = (tasks[t].pos + 1) % lights
               /\ tasks'[t].emits = tasks[t].emits + lights
               /\ tasks'[t].out = tasks[t].out \cup
                      {ChaseColor(tasks[t].obj, i, tasks[t].pos, lights) : i \in 1 .. lights}

\* the position, the falloff and the loop without lights are as the claim says
C35_ChaseArithmetic == []C35_Computed /\ [][C35_NoLights]_vars

\* C35: in the Chase loop over n >= 1 devices the position is always in
\* [0, n) and advances by exactly one modulo n per tick, and the brightness
\* sent to device i is int(65535 x max(0, 1 - |i - position| / n) x intensity),
\* within [0,65535] for an intensity in [0,1]; with n = 0 the loop ends at
\* once without emitting while the effect stays marked running and active.
C35_ChaseSweeps == []C35_Computed /\ [][C35_NoLights /\ C35_Tick]_vars

\* the beat texts handled so far: those that lack pos or bpm got no callback;
\* those with a position, a tempo within range and no strength or no change
\* field got the beat callback with strength 100 and change false in their
\* place
C40_Handled ==
    \A i \in 1 .. Len(outcomes) :
        LET t == TextOf(extracted[i])
            o == outcomes[i]
        IN  t.evt = Str("beat") =>
              /\ (t.pos = Absent \/ t.bpm = Absent) => o.kind = "ignored"
              /\ ( /\ t.pos.t = "num" /\ t.bpm.t = "num"
                   /\ 300 <= t.bpm.n /\ t.bpm.n <= 3000
                   /\ t.strength = Absent \/ t.change = Absent
                   /\ t.strength # Absent
                         => t.strength.t = "num" /\ 0 <= t.strength.n /\ t.strength.n <= 1000 )
                  => /\ o.kind = "beat"
                     /\ o.position = Trunc(t.pos.n) /\ o.bpm = t.bpm.n
                     /\ o.strength = IF t.strength = Absent THEN 1000 ELSE t.strength.n
                     /\ o.change = IF t.change = Absent THEN FALSE ELSE Truthy(t.change)

\* C40: a beat text that omits strength and/or change is accepted: it decodes
\* to a beat with strength 100 and change false for the omitted fields and
\* reaches the beat callback, whereas a beat text that omits pos or bpm
\* yields no message.
C40_OptionalBeatFields == C40_Handled

\* a beat without bpm was ignored and a beat without strength and change got
\* the beat callback with the defaults
C40_Witness ==
    /\ Len(outcomes) = 3
    /\ extracted[2] = <<"{", "m", "}">> /\ outcomes[2].kind = "ignored"
    /\ extracted[3] = <<"{", "s", "}">>
    /\ outcomes[3].kind = "beat" /\ outcomes[3].strength = 1000 /\ ~outcomes[3].change
    /\ outcomes[3].bpm = 1280 /\ outcomes[3].position = 1

\* the connections connection_made has run for and connection_lost has not
C37_Live == {p \in Peers : transports[p] \in {"open", "closing"}}

\* as long as stop() has not run, the set is exact and connection_lost finds
\* its connection
C37_ExactWhileServing == listening => connections = C37_Live /\ lost.out # "KeyError"

\* C37: the connection set contains exactly the connections for which
\* connection_made has run and connection_lost has not, and connection_lost
\* always finds its own connection in the set and removes it without error,
\* also when it runs for a connection that stop() has just closed.
C37_ConnectionSetExact == connections = C37_Live /\ lost.out # "KeyError"

\* the output of the last frame for band b is in [0,1], the peak is not below
\* the energy, and the output is what the peak and the energy give
C31_Band(b) ==
    LET E == heard[Len(heard)].energy[b]
        P == peak_energy[b]
        out == analysis.band_energies[b]
    IN  /\ out \in 0 .. 100
        /\ P >= E
        /\ out = IF P > 0 THEN (IF 2 * E >= P THEN 100 ELSE (200 * E) \div P) ELSE 0

\* the peak of band b after a frame is the larger of the decayed peak and
\* the energy; the decayed peak is 0.8 times the peak, to the nearest step
C31_Peak(b) ==
    LET E == heard'[Len(heard')].energy[b]
    IN  \E d \in 0 .. peak_energy[b] :
           /\ 10 * d - 8 * peak_energy[b] \in -5 .. 5
           /\ peak_energy'[b] = IF E > d THEN E ELSE d

C31_Frame == heard' # heard => \A b \in Bands : C31_Peak(b)

\* C31 as stated: each frame the peak becomes max(P x (1 - smoothing), E) and
\* the output is min(1, 2E/P) when P > 0 and 0 otherwise; every output lies
\* in [0,1], the peak is never below the current energy, and the output is 1
\* exactly when E is at least half of the updated peak.
C31_AdaptiveNormalization ==
    /\ [](heard # <<>> =>
            \A b \in Bands :
                /\ C31_Band(b)
                /\ analysis.band_energies[b] = 100
                      <=> 2 * heard[Len(heard)].energy[b] >= peak_energy[b])
    /\ [][C31_Frame]_vars

\* C31 with the last part for a positive peak: the output is 1 exactly when
\* the updated peak is positive and E is at least half of it
C31_AdaptiveNormalizationPositive ==
    /\ [](heard # <<>> =>
            \A b \in Bands :
                /\ C31_Band(b)
                /\ analysis.band_energies[b] = 100
                      <=> (peak_energy[b] > 0
                             /\ 2 * heard[Len(heard)].energy[b] >= peak_energy[b]))
    /\ [][C31_Frame]_vars

\* after a kick and a hiss: the bass output is 0 under a decayed peak, the
\* high band is at 1 with its peak at the energy, mid is at 1 too
C31_Witness ==
    /\ Len(heard) = 2
    /\ peak_energy["bass"] = 20 /\ analysis.band_energies["bass"] = 0
    /\ peak_energy["high"] = 10 /\ analysis.band_energies["high"] = 100
    /\ peak_energy["sub_bass"] = 32

\* a step that analyzes a silent frame gives 0 for every band and for the
\* volume, and moves every peak down to 0.8 times its value, never up
C32_Silent ==
    (heard' # heard /\ heard'[Len(heard')] = Silence) =>
        /\ \A b \in Bands :
              /\ analysis'.band_energies[b] = 0
              /\ peak_energy'[b] <= peak_energy[b]
              /\ 10 * peak_energy'[b] - 8 * peak_energy[b] \in -5 .. 5
        /\ analysis'.volume_level = 0

\* C32: a silent frame yields normalized energy 0 in every band and volume 0
\* in every analyzer state, also after loud frames have left non-zero peaks,
\* and it only decays the peaks.
C32_SilentFrame == [][C32_Silent]_vars

\* silence after a loud frame: the peaks have decayed and the result is 0
C32_Witness ==
    /\ Len(heard) = 2 /\ heard[2] = Silence /\ heard[1] # Silence
    /\ peak_energy["sub_bass"] = 32
    /\ analysis = NoAnalysis

====
